---------------------------- MODULE Spec2Model ----------------------------
(***************************************************************************)
(* Session state machine of daoch4n/anima: BaseSessionManager and its two  *)
(* adapters, TextSessionManager and CallSessionManager.                    *)
(*                                                                         *)
(* JavaScript runs every handler to its first await without interleaving,  *)
(* so each action below is one synchronous run of a handler: from a call,  *)
(* a conduit callback, a timer or a settled promise up to the next await.  *)
(* An async call that is suspended at an await is a record in tasks.       *)
(***************************************************************************)
EXTENDS Integers, Sequences, FiniteSets, TLC

\* ------------------------------------------------------------------ bounds
MaxTasks == 2          \* async calls suspended at an await, at most
MaxConduits == 2       \* conduits the remote side grants, at most
MaxTimers == 2         \* setTimeout handles handed out to scheduleReconnection
MaxHistory == 2        \* entries of a mode-local history, at most
MaxFragments == 2      \* streamed fragments of one response, at most
MaxElapses == 1        \* idle periods of about the token lifetime, at most
MaxOpens == 1          \* opens in flight at once in an orchestrated run

\* --------------------------------------------------------- program constants
MAX_RECONNECT_ATTEMPTS == 3
RECONNECT_DELAY_MS == 2000
RESUMPTION_TOKEN_EXPIRY_MS == 2 * 60 * 60 * 1000
GO_AWAY_MARGIN_MS == 500

\* ------------------------------------------------------------ input domains
NULL == "null"          \* a null string (resumptionToken: string | null)
None == <<>>            \* a null or undefined object reference
Some(x) == <<x>>        \* a reference to the object x
NoHandle == 0           \* a null conduit handle or timer handle
Mgrs == {"TextSessionManager", "CallSessionManager"}
Tokens == {"tokA"}
Modes == {"tts", "sts"}  \* EnergyMode
TimeLefts == {0, 500, 2500}
NoCaller == [op |-> "none", text |-> ""]
NoChain == [origin |-> "none", timeLeft |-> 0, closeAt |-> 0, epoch |-> 0,
            reconnects |-> 0]
NoTask == [kind |-> "none", mgr |-> NULL, pc |-> "none", deadline |-> 0,
           model |-> NULL, chain |-> NoChain, caller |-> NoCaller,
           ended |-> FALSE, transcript |-> <<>>]

VARIABLES
    now,             \* Date.now(), in ms
    underTest,       \* the adapter the environment drives in this run
    sessionState,    \* BaseSessionManager.sessionState, per adapter
    session,         \* adapter's conduit handle (this.session), per adapter
    reconnectTimer,  \* BaseSessionManager.reconnectTimer, per adapter
    history,         \* TextSessionManager.messages / CallSessionManager.callTranscript
    resolver,        \* TextSessionManager._currentResolver (the request it settles)
    responseText,    \* TextSessionManager._responseText
    store,           \* BaseSessionManager.resumptionTokenStore (static)
    timers,          \* pending setTimeout callbacks of scheduleReconnection
    nextTimer,       \* next setTimeout handle
    conduits,        \* every conduit client.live.connect has returned
    tasks,           \* async calls suspended at an await
    emitted,         \* events emitEvent produced during the last step
    settled,         \* promises settled during the last step
    level,           \* EnergyBarService: the energy level of each mode
    managerRef,      \* InteractionManager: its reference to each adapter is non-null
    dispatched,      \* CustomEvents dispatched during the last step
    streamed,        \* history: text fragments delivered since the pending send
    lowered,         \* history: the mode's level went down under its open session
    announced        \* history: a session-started carried the id of the adapter's session

vars == <<now, underTest, sessionState, session, reconnectTimer, history,
          resolver, responseText, store, timers, nextTimer, conduits, tasks,
          emitted, settled, level, managerRef, dispatched, streamed, lowered,
          announced>>

Max(a, b) == IF a >= b THEN a ELSE b

\* Date.now() based session id: `${mode}-session-${Date.now()}`
SessionIdPrefix(m) == IF m = "TextSessionManager" THEN "text-session" ELSE "sts-session"

\* the energy mode an adapter asks the EnergyBarService about
Mode(m) == IF m = "TextSessionManager" THEN "tts" ELSE "sts"

\* ------------------------------------------------------- EnergyBarService
\* TTS has the levels 0..2, STS the levels 0..3
MaxLevel(mode) == IF mode = "tts" THEN 2 ELSE 3

\* the model configured for a level; level 0 is exhausted: no model
ModelIds == [tts |-> <<"tts-1", "tts-2">>, sts |-> <<"sts-1", "sts-2", "sts-3">>]
getModelForLevel(mode, lvl) == IF lvl = 0 THEN NULL ELSE ModelIds[mode][lvl]

\* ------------------------------------------------------------------ world
\* A handler reads and writes the fields of one adapter m and the shared
\* state.  W(m) gathers them in a record, the handlers below map records to
\* records (so that a handler can call another one), Commit(m, w) writes the
\* result back.
W(m) ==
    [sessionState |-> sessionState[m], session |-> session[m],
     reconnectTimer |-> reconnectTimer[m], history |-> history[m],
     resolver |-> resolver[m], responseText |-> responseText[m],
     store |-> store, timers |-> timers, nextTimer |-> nextTimer,
     conduits |-> conduits, tasks |-> tasks, emitted |-> <<>>,
     settled |-> <<>>, level |-> level, managerRef |-> managerRef,
     dispatched |-> <<>>, streamed |-> streamed[m], lowered |-> lowered,
     announced |-> announced[m]]

\* handleEvent's `.catch` on the promise of sendTextMessage: every rejection
\* of a forwarded message becomes a message-error with the error's message
RECURSIVE MessageErrors(_)
MessageErrors(outcomes) ==
    IF outcomes = <<>> THEN <<>>
    ELSE (IF Head(outcomes).op = "sendMessage" /\ Head(outcomes).outcome = "rejected"
          THEN <<[type |-> "message-error", error |-> Head(outcomes).error]>>
          ELSE <<>>) \o MessageErrors(Tail(outcomes))

\* a catch that only logs
catchSendTextMessage_LogOnly(w) == w

catchSendTextMessage(w) ==
    [w EXCEPT !.dispatched = @ \o MessageErrors(w.settled)]

\* the promises of an orchestrated run are the ones handleEvent made
Caught(w) ==
    IF underTest = "InteractionManager" THEN catchSendTextMessage(w) ELSE w

Commit(m, w) ==
    /\ sessionState' = [sessionState EXCEPT ![m] = w.sessionState]
    /\ session' = [session EXCEPT ![m] = w.session]
    /\ reconnectTimer' = [reconnectTimer EXCEPT ![m] = w.reconnectTimer]
    /\ history' = [history EXCEPT ![m] = w.history]
    /\ resolver' = [resolver EXCEPT ![m] = w.resolver]
    /\ responseText' = [responseText EXCEPT ![m] = w.responseText]
    /\ store' = w.store
    /\ timers' = w.timers
    /\ nextTimer' = w.nextTimer
    /\ conduits' = w.conduits
    /\ tasks' = w.tasks
    /\ emitted' = w.emitted
    /\ settled' = w.settled
    /\ level' = w.level
    /\ managerRef' = w.managerRef
    /\ dispatched' = Caught(w).dispatched
    /\ streamed' = [streamed EXCEPT ![m] = w.streamed]
    /\ lowered' = w.lowered
    /\ announced' = [announced EXCEPT ![m] = w.announced /\ w.sessionState # None]

\* ------------------------------------------------------ BaseSessionManager
emitEvent(w, e) == [w EXCEPT !.emitted = Append(@, e)]

\* a store with one entry for the whole process
storeResumptionToken_Shared(w, m, token) ==
    [w EXCEPT !.store = [k \in DOMAIN @ |-> Some([token |-> token, timestamp |-> now])]]

storeResumptionToken(w, m, token) ==
    [w EXCEPT !.store[m] = Some([token |-> token, timestamp |-> now])]

\* clearTimeout(handle): a handle that already fired or is unknown is ignored
clearTimeout(w, handle) ==
    [w EXCEPT !.timers = {t \in @ : t.id # handle}]

\* session.close() and the adapter's history reset
performSessionCleanup(w) ==
    LET closed == IF w.session # NoHandle
                  THEN [w EXCEPT !.conduits[w.session].open = FALSE,
                                 !.session = NoHandle]
                  ELSE w
    IN [closed EXCEPT !.history = <<>>]

\* endSession that forgets the pending reconnection timer
endSession_KeepTimer(w, m) ==
    IF w.sessionState = None THEN w
    ELSE
        LET sessionId == w.sessionState[1].sessionId
            w2 == performSessionCleanup(w)
            resumptionToken == w2.sessionState[1].resumptionToken
            w3 == [w2 EXCEPT !.sessionState = None]
            w4 == IF resumptionToken # NULL
                  THEN storeResumptionToken(w3, m, resumptionToken)
                  ELSE w3
        IN emitEvent(w4, [type |-> "session-ended", sessionId |-> sessionId])

\* endSession without the guard on the session state
endSession_NoGuard(w, m) ==
    LET w1 == IF w.reconnectTimer # NoHandle
              THEN [clearTimeout(w, w.reconnectTimer) EXCEPT !.reconnectTimer = NoHandle]
              ELSE w
        sessionId == IF w.sessionState = None THEN NULL
                     ELSE w.sessionState[1].sessionId
        w2 == performSessionCleanup(w1)
        resumptionToken == IF w2.sessionState = None THEN NULL
                           ELSE w2.sessionState[1].resumptionToken
        w3 == [w2 EXCEPT !.sessionState = None]
        w4 == IF resumptionToken # NULL
              THEN storeResumptionToken(w3, m, resumptionToken)
              ELSE w3
    IN emitEvent(w4, [type |-> "session-ended", sessionId |-> sessionId])

endSession(w, m) ==
    IF w.sessionState = None THEN w
    ELSE
        LET w1 == IF w.reconnectTimer # NoHandle
                  THEN [clearTimeout(w, w.reconnectTimer) EXCEPT !.reconnectTimer = NoHandle]
                  ELSE w
            sessionId == w.sessionState[1].sessionId
            w2 == performSessionCleanup(w1)
            resumptionToken == w2.sessionState[1].resumptionToken
            w3 == [w2 EXCEPT !.sessionState = None]
            w4 == IF resumptionToken # NULL
                  THEN storeResumptionToken(w3, m, resumptionToken)
                  ELSE w3
        IN emitEvent(w4, [type |-> "session-ended", sessionId |-> sessionId])

setResumptionToken(w, m, token) ==
    IF w.sessionState = None THEN w
    ELSE storeResumptionToken([w EXCEPT !.sessionState[1].resumptionToken = token],
                              m, token)

\* scheduleReconnection that leaves the previous timer running
scheduleReconnection_NoClear(w, m, timeLeft) ==
    LET reconnectIn == Max(0, timeLeft - GO_AWAY_MARGIN_MS)
        handle == w.nextTimer
    IN [w EXCEPT !.timers = @ \cup {[id |-> handle, mgr |-> m,
                                     deadline |-> now + reconnectIn,
                                     timeLeft |-> timeLeft,
                                     closeAt |-> now + timeLeft]},
                 !.nextTimer = handle + 1,
                 !.reconnectTimer = handle]

\* setTimeout(() => this.attemptReconnection(), reconnectIn)
scheduleReconnection(w, m, timeLeft) ==
    LET w1 == IF w.reconnectTimer # NoHandle
              THEN clearTimeout(w, w.reconnectTimer)
              ELSE w
        reconnectIn == Max(0, timeLeft - GO_AWAY_MARGIN_MS)
        handle == w1.nextTimer
    IN [w1 EXCEPT !.timers = @ \cup {[id |-> handle, mgr |-> m,
                                      deadline |-> now + reconnectIn,
                                      timeLeft |-> timeLeft,
                                      closeAt |-> now + timeLeft]},
                  !.nextTimer = handle + 1,
                  !.reconnectTimer = handle]

\* handleGoAwayMessage that schedules without looking at the token
handleGoAwayMessage_Always(w, m, timeLeft) ==
    scheduleReconnection(emitEvent(w, [type |-> "go-away", timeLeft |-> timeLeft]),
                         m, timeLeft)

handleGoAwayMessage(w, m, timeLeft) ==
    LET w1 == emitEvent(w, [type |-> "go-away", timeLeft |-> timeLeft])
    IN IF w1.sessionState # None /\ w1.sessionState[1].resumptionToken # NULL
       THEN scheduleReconnection(w1, m, timeLeft)
       ELSE w1

\* handleRateLimitError that counts the rate limit as a failed connection
handleRateLimitError_Counts(w, error) ==
    LET w1 == emitEvent(w, [type |-> "rate-limit-error", error |-> error])
    IN IF w1.sessionState = None THEN w1
       ELSE [w1 EXCEPT !.sessionState[1].connectionAttempts = @ + 1]

handleRateLimitError(w, error) ==
    emitEvent(w, [type |-> "rate-limit-error", error |-> error])

\* an async call reaches an await: it is parked in the first free slot
FreeSlots(w) == {i \in 1..MaxTasks : w.tasks[i].kind = "none"}
Park(w, task) ==
    LET i == CHOOSE i \in FreeSlots(w) : \A j \in FreeSlots(w) : i <= j
    IN [w EXCEPT !.tasks[i] = task]

\* attemptReconnection up to its first await, the RECONNECT_DELAY_MS sleep.
\* chain (history of the call, not program state): what started the recursion
\* (origin), for a GoAway its timeLeft and the instant the remote side closes
\* (closeAt), the number of conduits granted when it started (epoch) and the
\* number of reconnectSession calls the recursion has made so far (reconnects).
\* ended (history too): endSession was called while the call awaited an open.
attemptReconnection(w, m, chain) ==
    IF w.sessionState = None \/ w.sessionState[1].resumptionToken = NULL THEN w
    ELSE Park(emitEvent(w, [type |-> "reconnecting",
                            attempt |-> w.sessionState[1].connectionAttempts]),
              [kind |-> "reconnect", mgr |-> m, pc |-> "delay",
               deadline |-> now + RECONNECT_DELAY_MS, model |-> NULL,
               chain |-> chain, caller |-> NoCaller, ended |-> FALSE,
               transcript |-> <<>>])

\* handleNetworkError that forgets to count the attempt
handleNetworkError_NoCount(w, m, error, chain) ==
    IF w.sessionState = None THEN w
    ELSE
        LET willRetry == /\ w.sessionState[1].connectionAttempts < MAX_RECONNECT_ATTEMPTS
                         /\ w.sessionState[1].resumptionToken # NULL
            w2 == emitEvent(w, [type |-> "network-error", error |-> error,
                                willRetry |-> willRetry])
        IN IF willRetry THEN attemptReconnection(w2, m, chain)
                        ELSE endSession(w2, m)

\* handleNetworkError with the ceiling compared by <= instead of <
handleNetworkError_Le(w, m, error, chain) ==
    IF w.sessionState = None THEN w
    ELSE
        LET w1 == [w EXCEPT !.sessionState[1].connectionAttempts = @ + 1]
            willRetry == /\ w1.sessionState[1].connectionAttempts <= MAX_RECONNECT_ATTEMPTS
                         /\ w1.sessionState[1].resumptionToken # NULL
            w2 == emitEvent(w1, [type |-> "network-error", error |-> error,
                                 willRetry |-> willRetry])
        IN IF willRetry THEN attemptReconnection(w2, m, chain)
                        ELSE endSession(w2, m)

handleNetworkError(w, m, error, chain) ==
    IF w.sessionState = None THEN w
    ELSE
        LET w1 == [w EXCEPT !.sessionState[1].connectionAttempts = @ + 1]
            willRetry == /\ w1.sessionState[1].connectionAttempts < MAX_RECONNECT_ATTEMPTS
                         /\ w1.sessionState[1].resumptionToken # NULL
            w2 == emitEvent(w1, [type |-> "network-error", error |-> error,
                                 willRetry |-> willRetry])
        IN IF willRetry THEN attemptReconnection(w2, m, chain)
                        ELSE endSession(w2, m)

\* a read that reports an expired entry as missing and leaves it in the store
getValidResumptionToken_Keep(w, m) ==
    LET stored == w.store[m]
    IN IF stored = None \/ now - stored[1].timestamp > RESUMPTION_TOKEN_EXPIRY_MS
       THEN <<NULL, w>>
       ELSE <<stored[1].token, w>>

\* getValidResumptionToken: <<token or NULL, world>> (an expired entry is purged)
getValidResumptionToken(w, m) ==
    LET stored == w.store[m]
    IN IF stored = None THEN <<NULL, w>>
       ELSE IF now - stored[1].timestamp > RESUMPTION_TOKEN_EXPIRY_MS
            THEN <<NULL, [w EXCEPT !.store[m] = None]>>
            ELSE <<stored[1].token, w>>

\* -------------------------------------------------------------- adapters
\* createNewSession up to `await this.client.live.connect(...)`
createNewSession(w, m, model, task) ==
    Park(w, [task EXCEPT !.pc = "connect", !.model = model])

\* createNewSession after connect resolved with a conduit
createNewSessionResume(w, m, model) ==
    LET handle == Len(w.conduits) + 1
    IN [w EXCEPT !.conduits = Append(@, [mgr |-> m, open |-> TRUE]),
                 !.session = handle,
                 !.lowered[Mode(m)] = FALSE,
                 !.announced = FALSE,
                 !.sessionState = Some([sessionId |-> <<SessionIdPrefix(m), now>>,
                                        resumptionToken |-> NULL,
                                        currentModel |-> model,
                                        isActive |-> TRUE,
                                        connectionAttempts |-> 0])]

\* startSession after createNewSession / resumeSession resolved
startSessionResume(w) ==
    emitEvent([w EXCEPT !.announced = TRUE],
              [type |-> "session-started",
               sessionId |-> w.sessionState[1].sessionId])

\* attemptReconnection that announces nothing after the re-open
attemptReconnectionResume_Silent(w) ==
    [w EXCEPT !.sessionState[1].connectionAttempts = 0]

\* attemptReconnection after reconnectSession resolved with a session state
attemptReconnectionResume(w) ==
    emitEvent([w EXCEPT !.sessionState[1].connectionAttempts = 0],
              [type |-> "session-resumed",
               sessionId |-> w.sessionState[1].sessionId,
               token |-> w.sessionState[1].resumptionToken])

\* resumeSession: "resumption works differently", it opens a new conduit
resumeSession(w, m, model, token, task) == createNewSession(w, m, model, task)

\* a reconnectSession that re-opens whether or not a session state is left
reconnectSession_Always(w, m, task) ==
    LET w1 == performSessionCleanup(w)
    IN <<TRUE, createNewSession(w1, m,
                                IF w1.sessionState # None
                                THEN w1.sessionState[1].currentModel
                                ELSE getModelForLevel(Mode(m), MaxLevel(Mode(m))),
                                task)>>

\* reconnectSession up to its await; <<awaiting, world>>
reconnectSession(w, m, task) ==
    LET w1 == performSessionCleanup(w)
    IN IF w1.sessionState # None
       THEN <<TRUE, createNewSession(w1, m, w1.sessionState[1].currentModel, task)>>
       ELSE <<FALSE, w1>>

\* startSession that resumes whenever a token is stored, requested or not
startSession_IgnoreFlag(w, m, config, caller) ==
    LET r == getValidResumptionToken(w, m)
        resume == r[1] # NULL
        task == [kind |-> "start", mgr |-> m, pc |-> "connect",
                 deadline |-> 0, model |-> config.model,
                 chain |-> [NoChain EXCEPT !.origin = IF resume THEN "resume" ELSE "new"],
                 caller |-> caller, ended |-> FALSE, transcript |-> <<>>]
    IN IF resume
       THEN resumeSession(r[2], m, config.model, r[1], task)
       ELSE createNewSession(r[2], m, config.model, task)

\* startSession up to the await inside createNewSession / resumeSession
startSession(w, m, config, caller) ==
    LET r == getValidResumptionToken(w, m)
        resumptionToken == r[1]
        w1 == r[2]
        resume == resumptionToken # NULL /\ config.enableResumption
        task == [kind |-> "start", mgr |-> m, pc |-> "connect",
                 deadline |-> 0, model |-> config.model,
                 chain |-> [NoChain EXCEPT !.origin = IF resume THEN "resume" ELSE "new"],
                 caller |-> caller, ended |-> FALSE, transcript |-> <<>>]
    IN IF resume
       THEN resumeSession(w1, m, config.model, resumptionToken, task)
       ELSE createNewSession(w1, m, config.model, task)

\* TextSessionManager.sendMessage from `this.messages.push` on: the user turn
\* is recorded, then the promise executor runs (sendOk: sendClientContent
\* returns rather than throws)
sendMessageBody(w, text, sendOk) ==
    LET w1 == [w EXCEPT !.history = Append(@, [role |-> "user", text |-> <<text>>])]
    IN IF w1.session = NoHandle
       THEN [w1 EXCEPT !.settled = Append(@, [op |-> "sendMessage", req |-> text,
                                              outcome |-> "rejected",
                                              value |-> <<>>, error |-> "No active session available"])]
       ELSE IF sendOk
            THEN [w1 EXCEPT !.resolver = Some(text), !.responseText = Some(<<>>),
                            !.streamed = <<>>]
            ELSE [w1 EXCEPT !.settled = Append(@, [op |-> "sendMessage", req |-> text,
                                                   outcome |-> "rejected",
                                                   value |-> <<>>, error |-> "send failed"])]

\* CallSessionManager.sendAudio after the lazy start
sendAudioBody(w, sendOk) ==
    IF w.session = NoHandle
    THEN [w EXCEPT !.settled = Append(@, [op |-> "sendAudio", req |-> "chunk",
                                          outcome |-> "rejected",
                                          value |-> <<>>, error |-> "No active session available"])]
    ELSE [w EXCEPT !.settled = Append(@, [op |-> "sendAudio", req |-> "chunk",
                                          outcome |-> IF sendOk THEN "resolved" ELSE "rejected",
                                          value |-> <<>>,
                                          error |-> IF sendOk THEN "" ELSE "send failed"])]

\* the rest of the caller of startSession once startSession has resolved
ResumeCaller(w, caller, sendOk) ==
    CASE caller.op = "sendMessage" -> sendMessageBody(w, caller.text, sendOk)
      [] caller.op = "sendAudio" -> sendAudioBody(w, sendOk)
      [] OTHER -> w

\* a startSession whose catch swallows the error: the caller sees no failure
RejectCaller_Swallow(w, caller, error) ==
    IF caller.op = "none" THEN w
    ELSE [w EXCEPT !.settled = Append(@, [op |-> caller.op, req |-> caller.text,
                                          outcome |-> "resolved", value |-> <<>>,
                                          error |-> ""])]

\* the caller of startSession when startSession has thrown
RejectCaller(w, caller, error) ==
    IF caller.op = "none" THEN w
    ELSE [w EXCEPT !.settled = Append(@, [op |-> caller.op, req |-> caller.text,
                                          outcome |-> "rejected", value |-> <<>>,
                                          error |-> error])]

\* energyBarService.getCurrentModel(mode)
getCurrentModel(w, mode) == getModelForLevel(mode, w.level[mode])

\* getModel: the adapter's model for the current energy level (NULL: it throws)
getModel(w, m) == getCurrentModel(w, Mode(m))

\* a getModel that falls back to the lowest model when the energy is exhausted
sendMessage_Fallback(w, m, text, sendOk) ==
    IF w.session = NoHandle
    THEN startSession(w, m, [model |-> IF getModel(w, m) = NULL
                                       THEN ModelIds[Mode(m)][1]
                                       ELSE getModel(w, m),
                             enableResumption |-> FALSE],
                      [op |-> "sendMessage", text |-> text])
    ELSE sendMessageBody(w, text, sendOk)

\* sendMessage leaves enableResumption undefined, sendAudio sets it to false;
\* a getModel that throws rejects the call before startSession
sendMessage(w, m, text, sendOk) ==
    IF w.session = NoHandle
    THEN IF getModel(w, m) = NULL
         THEN RejectCaller(w, [op |-> "sendMessage", text |-> text],
                           "Energy exhausted")
         ELSE startSession(w, m, [model |-> getModel(w, m),
                                  enableResumption |-> FALSE],
                           [op |-> "sendMessage", text |-> text])
    ELSE sendMessageBody(w, text, sendOk)

\* a sendAudio that asks startSession for resumption
sendAudio_Resume(w, m, sendOk) ==
    IF w.session = NoHandle
    THEN IF getModel(w, m) = NULL
         THEN RejectCaller(w, [op |-> "sendAudio", text |-> "chunk"],
                           "Energy exhausted")
         ELSE startSession(w, m, [model |-> getModel(w, m),
                                  enableResumption |-> TRUE],
                           [op |-> "sendAudio", text |-> "chunk"])
    ELSE sendAudioBody(w, sendOk)

sendAudio(w, m, sendOk) ==
    IF w.session = NoHandle
    THEN IF getModel(w, m) = NULL
         THEN RejectCaller(w, [op |-> "sendAudio", text |-> "chunk"],
                           "Energy exhausted")
         ELSE startSession(w, m, [model |-> getModel(w, m),
                                  enableResumption |-> FALSE],
                           [op |-> "sendAudio", text |-> "chunk"])
    ELSE sendAudioBody(w, sendOk)

\* an inbound message: which of the parts the callbacks look at it carries
\* (modelParts: the texts of serverContent.modelTurn.parts, <<>> for no
\* modelTurn; a text is the sequence of its characters, "" is <<>>)
NoMsg == [resumption |-> NULL, goAway |-> None, rateLimit |-> FALSE,
          modelParts |-> <<>>, generationComplete |-> FALSE,
          outputTranscription |-> NULL, inputTranscription |-> NULL]

\* modelTurn.parts?.[modelTurn.parts.length - 1]?.text
LastPartText(msg) ==
    IF msg.modelParts = <<>> THEN <<>> ELSE msg.modelParts[Len(msg.modelParts)]

\* modelTurn?.parts?.[0]?.text || ""
FirstPartText(msg) ==
    IF msg.modelParts = <<>> THEN <<>> ELSE msg.modelParts[1]

\* the parts both adapters treat alike: resumption update, GoAway, rate limit
onmessageCommon(w, m, msg) ==
    LET w1 == IF msg.resumption # NULL
              THEN setResumptionToken(w, m, msg.resumption) ELSE w
        w2 == IF msg.goAway # None
              THEN handleGoAwayMessage(w1, m, msg.goAway[1]) ELSE w1
    IN IF msg.rateLimit THEN handleRateLimitError(w2, "rate limit") ELSE w2

\* an onmessage that puts the newest fragment in front of the response text
onmessageText_Prepend(w, m, msg) ==
    LET w1 == onmessageCommon(w, m, msg)
        w2 == IF LastPartText(msg) # <<>> /\ w1.responseText # None
              THEN [w1 EXCEPT !.responseText[1] = LastPartText(msg) \o @,
                              !.streamed = Append(@, LastPartText(msg))]
              ELSE w1
        answer == IF w2.responseText = None THEN <<>> ELSE w2.responseText[1]
        w3 == IF msg.generationComplete /\ w2.resolver # None
              THEN [w2 EXCEPT !.history = Append(@, [role |-> "model",
                                                     text |-> answer]),
                              !.settled = Append(@, [op |-> "sendMessage",
                                                     req |-> w2.resolver[1],
                                                     outcome |-> "resolved",
                                                     value |-> answer, error |-> ""]),
                              !.resolver = None, !.responseText = None]
              ELSE w2
    IN emitEvent(w3, [type |-> "message-received", text |-> FirstPartText(msg)])

\* TextSessionManager.getCallbacks().onmessage
onmessageText(w, m, msg) ==
    LET w1 == onmessageCommon(w, m, msg)
        w2 == IF LastPartText(msg) # <<>> /\ w1.responseText # None
              THEN [w1 EXCEPT !.responseText[1] = @ \o LastPartText(msg),
                              !.streamed = Append(@, LastPartText(msg))]
              ELSE w1
        answer == IF w2.responseText = None THEN <<>> ELSE w2.responseText[1]
        w3 == IF msg.generationComplete /\ w2.resolver # None
              THEN [w2 EXCEPT !.history = Append(@, [role |-> "model",
                                                     text |-> answer]),
                              !.settled = Append(@, [op |-> "sendMessage",
                                                     req |-> w2.resolver[1],
                                                     outcome |-> "resolved",
                                                     value |-> answer, error |-> ""]),
                              !.resolver = None, !.responseText = None]
              ELSE w2
    IN emitEvent(w3, [type |-> "message-received", text |-> FirstPartText(msg)])

\* CallSessionManager.getCallbacks().onmessage
onmessageCall(w, m, msg) ==
    LET w1 == onmessageCommon(w, m, msg)
        w2 == IF msg.outputTranscription # NULL
              THEN [w1 EXCEPT !.history = Append(@, [speaker |-> "model",
                                                     text |-> msg.outputTranscription])]
              ELSE w1
        w3 == IF msg.inputTranscription # NULL
              THEN [w2 EXCEPT !.history = Append(@, [speaker |-> "user",
                                                     text |-> msg.inputTranscription])]
              ELSE w2
    IN emitEvent(w3, [type |-> "message-received",
                      text |-> IF FirstPartText(msg) # <<>> THEN FirstPartText(msg)
                               ELSE IF msg.outputTranscription # NULL
                                    THEN <<msg.outputTranscription>> ELSE <<>>])

onmessage(w, m, msg) ==
    IF m = "TextSessionManager" THEN onmessageText(w, m, msg)
                                ELSE onmessageCall(w, m, msg)

\* getCallbacks().onerror: the text adapter also rejects the pending promise
onerror(w, m, error, chain) ==
    LET w1 == handleNetworkError(w, m, error, chain)
    IN IF m = "TextSessionManager" /\ w1.resolver # None
       THEN [w1 EXCEPT !.settled = Append(@, [op |-> "sendMessage",
                                              req |-> w1.resolver[1],
                                              outcome |-> "rejected",
                                              value |-> <<>>, error |-> error]),
                       !.resolver = None, !.responseText = None]
       ELSE w1

\* getCallbacks().onclose / onopen
setActive(w, flag) ==
    IF w.sessionState # None
    THEN [w EXCEPT !.sessionState[1].isActive = flag]
    ELSE w

\* ------------------------------------------------------------------ states
Fresh ==
    /\ now = 0
    /\ sessionState = [m \in Mgrs |-> None]
    /\ session = [m \in Mgrs |-> NoHandle]
    /\ reconnectTimer = [m \in Mgrs |-> NoHandle]
    /\ history = [m \in Mgrs |-> <<>>]
    /\ resolver = [m \in Mgrs |-> None]
    /\ responseText = [m \in Mgrs |-> None]
    /\ store = [m \in Mgrs |-> None]
    /\ timers = {}
    /\ nextTimer = 1
    /\ conduits = <<>>
    /\ tasks = [i \in 1..MaxTasks |-> NoTask]
    /\ emitted = <<>>
    /\ settled = <<>>
    /\ level = [mode \in Modes |-> MaxLevel(mode)]
    /\ managerRef = [m \in Mgrs |-> TRUE]
    /\ dispatched = <<>>
    /\ streamed = [m \in Mgrs |-> <<>>]
    /\ lowered = [mode \in Modes |-> FALSE]
    /\ announced = [m \in Mgrs |-> FALSE]

\* one adapter on its own, driven by its callers and its conduit
Init == underTest \in Mgrs /\ Fresh

\* the InteractionManager with the two adapters it was constructed with
InitOrch == underTest = "InteractionManager" /\ Fresh

\* ----------------------------------------------------------------- actions
\* the run drives adapter m: it is the adapter under test, or the run drives
\* the InteractionManager, which owns both adapters
Driven(m) == underTest \in {m, "InteractionManager"}
HasConduit(m) == \E c \in 1..Len(conduits) : conduits[c].mgr = m
HasFreeSlot == \E i \in 1..MaxTasks : tasks[i].kind = "none"
\* the opens in flight
PendingOpens == {i \in 1..MaxTasks : tasks[i].pc = "connect"}
DueTimers == {t \in timers : t.deadline <= now}
DueDelays == {i \in 1..MaxTasks : tasks[i].pc = "delay" /\ tasks[i].deadline <= now}

\* inbound messages: resumption updates and content (a transcription fragment
\* for the audio adapter, a closing model turn for the text adapter)
Msgs ==
    {[NoMsg EXCEPT !.resumption = tok] : tok \in Tokens}
    \cup {[NoMsg EXCEPT !.outputTranscription = "a"],
          [NoMsg EXCEPT !.modelParts = <<<<"a">>>>, !.generationComplete = TRUE],
          [NoMsg EXCEPT !.rateLimit = TRUE]}

\* inbound messages of the GoAway scenario: resumption updates and GoAways
GoAwayMsgs ==
    {[NoMsg EXCEPT !.resumption = tok] : tok \in Tokens}
    \cup {[NoMsg EXCEPT !.goAway = Some(t)] : t \in TimeLefts}
    \cup {[NoMsg EXCEPT !.resumption = "tokA", !.goAway = Some(2500)]}

\* history: the calls of m that await an open see an endSession call go by
MarkEnded(ts, m) ==
    [i \in 1..MaxTasks |->
        IF ts[i].pc = "connect" /\ ts[i].mgr = m
        THEN [ts[i] EXCEPT !.ended = TRUE] ELSE ts[i]]

\* the UI sends a text message
SendMessage(m, text, sendOk) ==
    /\ Driven(m) /\ m = "TextSessionManager"
    /\ HasFreeSlot
    /\ Len(history[m]) < MaxHistory
    /\ Commit(m, sendMessage(W(m), m, text, sendOk))
    /\ UNCHANGED <<now, underTest>>

\* the UI streams an audio chunk
SendAudio(m, sendOk) ==
    /\ Driven(m) /\ m = "CallSessionManager"
    /\ HasFreeSlot
    /\ Commit(m, sendAudio(W(m), m, sendOk))
    /\ UNCHANGED <<now, underTest>>

\* a caller (the orchestrator's clear-chat, destroy, end of call) ends the session
EndSession(m) ==
    /\ Driven(m)
    /\ Commit(m, endSession([W(m) EXCEPT !.tasks = MarkEnded(tasks, m)], m))
    /\ UNCHANGED <<now, underTest>>

\* a caller hands the adapter a resumption token
SetResumptionToken(m, token) ==
    /\ Driven(m)
    /\ Commit(m, setResumptionToken(W(m), m, token))
    /\ UNCHANGED <<now, underTest>>

\* the message makes the adapter append a turn to its history
GrowsHistory(m, msg) ==
    IF m = "TextSessionManager"
    THEN msg.generationComplete /\ resolver[m] # None
    ELSE msg.outputTranscription # NULL \/ msg.inputTranscription # NULL

\* callbacks.onmessage
OnMessage(m, msg) ==
    /\ Driven(m)
    /\ HasConduit(m)
    /\ msg.goAway # None => nextTimer <= MaxTimers
    /\ GrowsHistory(m, msg) => Len(history[m]) < MaxHistory
    /\ (LastPartText(msg) # <<>> /\ responseText[m] # None)
          => Len(streamed[m]) < MaxFragments
    /\ Commit(m, onmessage(W(m), m, msg))
    /\ UNCHANGED <<now, underTest>>

\* callbacks.onerror
OnError(m) ==
    /\ Driven(m)
    /\ HasConduit(m)
    /\ HasFreeSlot
    /\ Commit(m, onerror(W(m), m, "network",
                         [NoChain EXCEPT !.origin = "error",
                                         !.epoch = Len(conduits)]))
    /\ UNCHANGED <<now, underTest>>

\* callbacks.onclose
OnClose(m) ==
    /\ Driven(m)
    /\ HasConduit(m)
    /\ Commit(m, setActive(W(m), FALSE))
    /\ UNCHANGED <<now, underTest>>

\* callbacks.onopen
OnOpen(m) ==
    /\ Driven(m)
    /\ HasConduit(m)
    /\ Commit(m, setActive(W(m), TRUE))
    /\ UNCHANGED <<now, underTest>>

\* the timer of scheduleReconnection fires: this.attemptReconnection()
TimerFire(t) ==
    /\ t \in DueTimers
    /\ HasFreeSlot
    /\ Commit(t.mgr, attemptReconnection(
                        [W(t.mgr) EXCEPT !.timers = @ \ {t}], t.mgr,
                        [NoChain EXCEPT !.origin = "goaway",
                                        !.timeLeft = t.timeLeft,
                                        !.closeAt = t.closeAt,
                                        !.epoch = Len(conduits)]))
    /\ UNCHANGED <<now, underTest>>

\* attemptReconnection after the RECONNECT_DELAY_MS sleep: reconnectSession()
\* runs to its await; when it resolves without awaiting (no session state) the
\* assignment to this.sessionState.connectionAttempts throws a TypeError, which
\* the catch hands to handleNetworkError
DelayElapsed(i) ==
    /\ i \in DueDelays
    /\ LET task == tasks[i]
           m == task.mgr
           invoked == [task EXCEPT !.chain.reconnects = @ + 1]
           r == reconnectSession([W(m) EXCEPT !.tasks[i] = NoTask], m, invoked)
       IN Commit(m, IF r[1] THEN r[2]
                    ELSE handleNetworkError(r[2], m, "TypeError", invoked.chain))
    /\ UNCHANGED <<now, underTest>>

\* client.live.connect resolves: createNewSession installs the conduit and a
\* fresh session state, then startSession emits session-started and its caller
\* goes on, or attemptReconnection resets the attempts and emits session-resumed
ConnectResolve(i, sendOk) ==
    /\ tasks[i].pc = "connect"
    /\ Len(conduits) < MaxConduits
    /\ LET task == tasks[i]
           m == task.mgr
           w1 == createNewSessionResume([W(m) EXCEPT !.tasks[i] = NoTask], m, task.model)
       IN Commit(m,
            IF task.kind = "start"
            THEN ResumeCaller(startSessionResume(w1), task.caller, sendOk)
            ELSE attemptReconnectionResume(w1))
    /\ UNCHANGED <<now, underTest>>

\* client.live.connect rejects: startSession rethrows to its caller,
\* attemptReconnection catches and calls handleNetworkError
ConnectReject(i) ==
    /\ tasks[i].pc = "connect"
    /\ LET task == tasks[i]
           m == task.mgr
           w1 == [W(m) EXCEPT !.tasks[i] = NoTask]
       IN Commit(m,
            IF task.kind = "start"
            THEN RejectCaller(w1, task.caller, "connect failed")
            ELSE handleNetworkError(w1, m, "connect failed", task.chain))
    /\ UNCHANGED <<now, underTest>>

\* the deadlines of the pending timers and sleeps
Deadlines == {t.deadline : t \in timers}
             \cup {tasks[i].deadline : i \in {j \in 1..MaxTasks : tasks[j].pc = "delay"}}

\* time passes: no handler blocks the event loop, so the clock moves from one
\* instant at which something is due to the next one
NextInstant == CHOOSE d \in Deadlines : \A e \in Deadlines : d <= e

Tick ==
    /\ Deadlines # {}
    /\ DueTimers = {} /\ DueDelays = {}
    /\ now' = NextInstant
    /\ emitted' = <<>> /\ settled' = <<>> /\ dispatched' = <<>>
    /\ UNCHANGED <<underTest, sessionState, session, reconnectTimer, history,
                   resolver, responseText, store, timers, nextTimer, conduits,
                   tasks, level, managerRef, streamed, lowered, announced>>

\* the adapter's callers and the asynchronous completions, in every scenario
Calls ==
    \/ \E m \in Mgrs, sendOk \in BOOLEAN : SendMessage(m, "hi", sendOk)
    \/ \E m \in Mgrs, sendOk \in BOOLEAN : SendAudio(m, sendOk)
    \/ \E m \in Mgrs : EndSession(m)

Completions ==
    \/ \E i \in 1..MaxTasks : DelayElapsed(i)
    \/ \E i \in 1..MaxTasks, sendOk \in BOOLEAN : ConnectResolve(i, sendOk)
    \/ \E i \in 1..MaxTasks : ConnectReject(i)
    \/ Tick

\* a conduit that delivers content, resumption updates and transport events
Next ==
    \/ Calls
    \/ \E m \in Mgrs, msg \in Msgs : OnMessage(m, msg)
    \/ \E m \in Mgrs : OnError(m)
    \/ \E m \in Mgrs : OnClose(m)
    \/ \E m \in Mgrs : OnOpen(m)
    \/ Completions

Spec == Init /\ [][Next]_vars

\* a conduit that announces its forced disconnects
NextGoAway ==
    \/ Calls
    \/ \E m \in Mgrs, msg \in GoAwayMsgs : OnMessage(m, msg)
    \/ \E t \in timers : TimerFire(t)
    \/ Completions

SpecGoAway == Init /\ [][NextGoAway]_vars

TypeOK ==
    /\ now >= 0
    /\ \A m \in Mgrs : Len(sessionState[m]) <= 1

\* ------------------------------------------------------------ observations
\* positions in the last step's events that hold an event of the given type
Emitted(type) == {k \in 1..Len(emitted) : emitted[k].type = type}

\* the reconnect tasks of adapter m parked at the given await
Reconnects(m, pc) ==
    {i \in 1..MaxTasks : tasks[i].kind = "reconnect" /\ tasks[i].mgr = m
                         /\ tasks[i].pc = pc}

\* a step in which handleNetworkError runs for adapter m: the conduit's onerror
\* callback, or the catch of attemptReconnection after a failed re-open
NetworkErrorStep(m) ==
    \/ OnError(m)
    \/ \E i \in 1..MaxTasks :
          tasks[i].kind = "reconnect" /\ tasks[i].mgr = m /\ ConnectReject(i)

\* C1: every network error handled on a live session adds exactly 1 to
\* connectionAttempts and emits exactly one network-error event whose willRetry
\* is (attempts after the increment < 3 and the token is non-null); without
\* retry the session is ended (state null, session-ended emitted), with retry
\* a reconnection attempt is started (reconnecting emitted, the sleep begun)
\* and the session stays.
C1_NetworkErrorHandling ==
    [][\A m \in Mgrs :
        (NetworkErrorStep(m) /\ sessionState[m] # None) =>
            LET attempts == sessionState[m][1].connectionAttempts + 1
                willRetry == attempts < 3 /\ sessionState[m][1].resumptionToken # NULL
            IN /\ Cardinality(Emitted("network-error")') = 1
               /\ \A k \in Emitted("network-error")' : emitted'[k].willRetry = willRetry
               /\ willRetry =>
                    /\ sessionState'[m] # None
                    /\ sessionState'[m][1].connectionAttempts = attempts
                    /\ Emitted("session-ended")' = {}
                    /\ \E k \in Emitted("reconnecting")' : emitted'[k].attempt = attempts
                    /\ \E i \in Reconnects(m, "delay")' :
                          /\ tasks[i].kind = "none" \/ tasks[i].pc = "connect"
                          /\ tasks'[i].deadline = now + 2000
               /\ ~willRetry =>
                    /\ sessionState'[m] = None
                    /\ Emitted("reconnecting")' = {}
                    /\ \E k \in Emitted("session-ended")' :
                          emitted'[k].sessionId = sessionState[m][1].sessionId
      ]_vars

\* C1 witness: the third error of a session with a token was handled: one
\* network-error without retry, then session-ended, and the session is gone
C1_Witness ==
    \E m \in Mgrs :
        /\ sessionState[m] = None
        /\ store[m] # None
        /\ Len(emitted) = 2
        /\ emitted[1].type = "network-error" /\ ~emitted[1].willRetry
        /\ emitted[2].type = "session-ended"

\* C2 (as claimed): on a session holding a token the first three consecutive
\* network errors are retried and leave the session alive; only the fourth is
\* emitted with willRetry = false and ends the session.  connectionAttempts is
\* the number of consecutive errors so far: only a new session state resets it.
C2_FourthErrorEnds ==
    [][\A m \in Mgrs :
        (/\ NetworkErrorStep(m)
         /\ sessionState[m] # None
         /\ sessionState[m][1].resumptionToken # NULL) =>
            LET nth == sessionState[m][1].connectionAttempts + 1
            IN /\ nth <= 3 => /\ sessionState'[m] # None
                              /\ \A k \in Emitted("network-error")' : emitted'[k].willRetry
               /\ nth = 4 => /\ sessionState'[m] = None
                             /\ \A k \in Emitted("network-error")' : ~emitted'[k].willRetry
      ]_vars

\* ---------------------------------------------------------------- recovery
\* the conduit cannot be re-opened: every connect issued by reconnectSession
\* rejects (a connect issued by startSession may still resolve).  Timers fire
\* and a pending connect settles.
ConnectResolveStart(i, sendOk) ==
    /\ tasks[i].kind = "start"
    /\ ConnectResolve(i, sendOk)

RecoveryMsgs == {[NoMsg EXCEPT !.resumption = tok] : tok \in Tokens}

NextRecovery ==
    \/ Calls
    \/ \E m \in Mgrs, msg \in RecoveryMsgs : OnMessage(m, msg)
    \/ \E m \in Mgrs : OnError(m)
    \/ \E i \in 1..MaxTasks : DelayElapsed(i)
    \/ \E i \in 1..MaxTasks, sendOk \in BOOLEAN : ConnectResolveStart(i, sendOk)
    \/ \E i \in 1..MaxTasks : ConnectReject(i)
    \/ Tick

SpecRecovery ==
    /\ Init /\ [][NextRecovery]_vars
    /\ WF_vars(Tick)
    /\ \A i \in 1..MaxTasks : WF_vars(DelayElapsed(i)) /\ WF_vars(ConnectReject(i))

C4_ReconnectSuccess ==
    [][/\ \A i \in 1..MaxTasks, sendOk \in BOOLEAN :
            (tasks[i].kind = "reconnect" /\ ConnectResolve(i, sendOk)) =>
                LET m == tasks[i].mgr
                IN /\ sessionState'[m] # None
                   /\ sessionState'[m][1].connectionAttempts = 0
                   /\ Cardinality(Emitted("session-resumed")') = 1
                   /\ \A k \in Emitted("session-resumed")' :
                         emitted'[k].sessionId = sessionState'[m][1].sessionId
       /\ Emitted("session-resumed")' # {} =>
            \E i \in 1..MaxTasks :
                tasks[i].kind = "reconnect" /\ tasks[i].pc = "connect"
                /\ tasks'[i].kind = "none"
       /\ \A i \in 1..MaxTasks :
            (tasks'[i].kind = "reconnect" /\ tasks'[i].pc = "delay"
             /\ tasks'[i] # tasks[i]) => Emitted("reconnecting")' # {}
      ]_vars

\* C4 witness: a reconnection that began after a network error has re-opened
\* the conduit
C4_Witness ==
    \E m \in Mgrs :
        /\ sessionState[m] # None
        /\ sessionState[m][1].connectionAttempts = 0
        /\ now >= RECONNECT_DELAY_MS
        /\ Len(emitted) = 1 /\ emitted[1].type = "session-resumed"
        /\ Len(conduits) = 2 /\ session[m] = 2 /\ ~conduits[1].open

\* C5: a GoAway with time-remaining t always emits one go-away event carrying
\* t; a timer that fires max(0, t - 500) ms later is created (and becomes the
\* reconnectTimer) if and only if the live session then holds a token: with no
\* session or no token the timers are left as they are.
C5_GoAwaySchedules ==
    [][\A m \in Mgrs, msg \in GoAwayMsgs :
        (msg.goAway # None /\ OnMessage(m, msg)) =>
            LET t == msg.goAway[1]
                token == IF sessionState[m] = None THEN NULL
                         ELSE IF msg.resumption # NULL THEN msg.resumption
                         ELSE sessionState[m][1].resumptionToken
                created == timers' \ timers
            IN /\ Cardinality(Emitted("go-away")') = 1
               /\ \A k \in Emitted("go-away")' : emitted'[k].timeLeft = t
               /\ token # NULL =>
                    \E tm \in created :
                        /\ created = {tm}
                        /\ tm.mgr = m
                        /\ tm.deadline = now + (IF t > 500 THEN t - 500 ELSE 0)
                        /\ reconnectTimer'[m] = tm.id
               /\ token = NULL =>
                    /\ timers' = timers
                    /\ reconnectTimer' = reconnectTimer
      ]_vars

\* C5 witness: a GoAway with 2500 ms left has just been handled on a session
\* with a token: the timer is due 2000 ms from now
C5_Witness ==
    \E m \in Mgrs, tm \in timers :
        /\ sessionState[m] # None /\ sessionState[m][1].resumptionToken # NULL
        /\ Emitted("go-away") # {}
        /\ \A k \in Emitted("go-away") : emitted[k].timeLeft = 2500
        /\ tm.mgr = m /\ tm.id = reconnectTimer[m]
        /\ tm.deadline = now + 2000

\* C6: at most one scheduled reconnection is pending per session manager, and
\* it is the one scheduled last (the manager's reconnectTimer): a GoAway that
\* arrives before the timer of an earlier one has fired replaces that timer.
C6_OneTimerPending ==
    \A m \in Mgrs :
        /\ Cardinality({tm \in timers : tm.mgr = m}) <= 1
        /\ \A tm \in timers : tm.mgr = m => tm.id = reconnectTimer[m]

\* C6 witness: the second GoAway of a session arrived in the instant of the
\* first, whose timer has not fired (no reconnection has begun): only the
\* second timer is pending
C6_Witness ==
    \E m \in Mgrs, tm \in timers :
        /\ now = 0 /\ Len(conduits) = 1 /\ sessionState[m] # None
        /\ \A i \in 1..MaxTasks : tasks[i].kind = "none"
        /\ nextTimer = 3
        /\ timers = {tm} /\ tm.id = 2 /\ tm.mgr = m

\* C7 (as claimed): for a GoAway with t >= 500 on a session holding a token the
\* first reconnectSession call of the scheduled reconnection is made before t
\* has elapsed since the GoAway, i.e. before the remote side closes.
C7_ReconnectBeforeClose ==
    [][\A i \in 1..MaxTasks :
        (/\ DelayElapsed(i)
         /\ tasks[i].chain.origin = "goaway"
         /\ tasks[i].chain.reconnects = 0
         /\ tasks[i].chain.timeLeft >= 500) =>
            now < tasks[i].chain.closeAt
      ]_vars

\* C8: endSession on a manager with a session state cancels the pending
\* reconnection timer, closes the conduit handle, empties the history, copies a
\* non-null token into the store under the adapter's own key, nulls the state
\* and emits exactly one session-ended carrying the ended session's id.
C8_EndSessionEffects ==
    [][\A m \in Mgrs :
        (EndSession(m) /\ sessionState[m] # None) =>
            LET token == sessionState[m][1].resumptionToken
            IN /\ {tm \in timers' : tm.mgr = m} = {}
               /\ reconnectTimer'[m] = NoHandle
               /\ session'[m] = NoHandle
               /\ session[m] # NoHandle => ~conduits'[session[m]].open
               /\ history'[m] = <<>>
               /\ sessionState'[m] = None
               /\ token # NULL =>
                    store'[m] = Some([token |-> token, timestamp |-> now])
               /\ token = NULL => store'[m] = store[m]
               /\ \A o \in Mgrs \ {m} : store'[o] = store[o]
               /\ emitted' = <<[type |-> "session-ended",
                                sessionId |-> sessionState[m][1].sessionId]>>
      ]_vars

\* C8 witness: a session that held a token and had a reconnection scheduled in
\* this instant (timer 1, which has not fired: no reconnection has begun) was
\* ended: the timer is gone, the conduit closed, the token in the store
C8_Witness ==
    \E m \in Mgrs :
        /\ emitted = <<[type |-> "session-ended",
                        sessionId |-> <<SessionIdPrefix(m), 0>>]>>
        /\ sessionState[m] = None /\ store[m] # None
        /\ now = 0 /\ nextTimer = 2 /\ timers = {}
        /\ \A i \in 1..MaxTasks : tasks[i].kind = "none"
        /\ Len(conduits) = 1 /\ ~conduits[1].open
        /\ session[m] = NoHandle /\ history[m] = <<>>

\* C9: endSession with no session state (a second call right after a first
\* included) emits nothing, closes nothing and leaves the session state, the
\* conduit handle, the history, the timers and the token store as they are.
C9_EndSessionIdempotent ==
    [][\A m \in Mgrs :
        (EndSession(m) /\ sessionState[m] = None) =>
            /\ emitted' = <<>>
            /\ conduits' = conduits
            /\ UNCHANGED <<sessionState, session, history, reconnectTimer,
                           timers, nextTimer, store>>
      ]_vars

\* C9 witness: endSession has just ended a session whose conduit is still
\* known; this is the state in which a second call is made
C9_Witness ==
    \E m \in Mgrs :
        /\ sessionState[m] = None
        /\ emitted = <<[type |-> "session-ended",
                        sessionId |-> <<SessionIdPrefix(m), 0>>]>>
        /\ Len(conduits) >= 1

\* C10 (as claimed): when endSession was called while a conduit open was in
\* progress, the open that completes later installs neither a conduit handle
\* nor a session state, and emits neither session-started nor session-resumed.
C10_OpenAfterEndDiscarded ==
    [][\A i \in 1..MaxTasks, sendOk \in BOOLEAN :
        (ConnectResolve(i, sendOk) /\ tasks[i].ended) =>
            LET m == tasks[i].mgr
            IN /\ sessionState'[m] = None
               /\ session'[m] = NoHandle
               /\ Emitted("session-started")' = {}
               /\ Emitted("session-resumed")' = {}
      ]_vars

\* ------------------------------------------------- starts and stored tokens
\* a caller starts a session itself, asking for resumption or not
StartSession(m, enableResumption) ==
    /\ Driven(m)
    /\ HasFreeSlot
    /\ getModel(W(m), m) # NULL
    /\ Commit(m, startSession(W(m), m,
                              [model |-> getModel(W(m), m),
                               enableResumption |-> enableResumption],
                              [op |-> "startSession", text |-> ""]))
    /\ UNCHANGED <<now, underTest>>

\* the application idles for the lifetime of a token, or one ms longer
Elapse(d) ==
    /\ Deadlines = {}
    /\ now < MaxElapses * RESUMPTION_TOKEN_EXPIRY_MS
    /\ now' = now + d
    /\ emitted' = <<>> /\ settled' = <<>> /\ dispatched' = <<>>
    /\ UNCHANGED <<underTest, sessionState, session, reconnectTimer, history,
                   resolver, responseText, store, timers, nextTimer, conduits,
                   tasks, level, managerRef, streamed, lowered, announced>>

\* sessions that are started, given tokens, ended and started again later
NextStart ==
    \/ \E m \in Mgrs, enableResumption \in BOOLEAN : StartSession(m, enableResumption)
    \/ Calls
    \/ \E m \in Mgrs, msg \in RecoveryMsgs : OnMessage(m, msg)
    \/ \E i \in 1..MaxTasks, sendOk \in BOOLEAN : ConnectResolve(i, sendOk)
    \/ \E i \in 1..MaxTasks : ConnectReject(i)
    \/ \E d \in {RESUMPTION_TOKEN_EXPIRY_MS, RESUMPTION_TOKEN_EXPIRY_MS + 1} : Elapse(d)

SpecStart == Init /\ [][NextStart]_vars

\* the start calls a step has just parked at their conduit open
Started == {i \in 1..MaxTasks : tasks[i].kind = "none" /\ tasks'[i].kind = "start"}

\* C11: startSession takes the resume path exactly when the store holds, under
\* the adapter's own key, a token stored at most 2 hours (7,200,000 ms) ago and
\* config.enableResumption is true; in every other case (no token, expired
\* token, resumption not requested) it takes the createNewSession path.
C11_ResumeIffValidTokenAndRequested ==
    [][\A m \in Mgrs, enableResumption \in BOOLEAN :
        StartSession(m, enableResumption) =>
            LET valid == /\ store[m] # None
                         /\ now - store[m][1].timestamp <= 7200000
            IN \E i \in Started :
                  /\ Started = {i}
                  /\ tasks'[i].mgr = m
                  /\ tasks'[i].chain.origin =
                        IF valid /\ enableResumption THEN "resume" ELSE "new"
      ]_vars

\* C11 witness: a start that asked for resumption exactly 2 hours after the
\* token was stored is on the resume path
C11_Witness ==
    \E m \in Mgrs, i \in 1..MaxTasks :
        /\ store[m] # None /\ store[m][1].timestamp = 0
        /\ now = RESUMPTION_TOKEN_EXPIRY_MS
        /\ tasks[i].kind = "start" /\ tasks[i].mgr = m
        /\ tasks[i].chain.origin = "resume"

\* C12: when the conduit open of a startSession fails, startSession rejects
\* with that error, emits no session-started (no event at all), installs
\* nothing (session state and conduit handle stay as they were: on an idle
\* manager null, isSessionActive() false) and no open is retried.
C12_FailedOpenPropagates ==
    [][\A i \in 1..MaxTasks :
        (ConnectReject(i) /\ tasks[i].kind = "start") =>
            LET m == tasks[i].mgr
            IN /\ settled' = <<[op |-> tasks[i].caller.op,
                                req |-> tasks[i].caller.text,
                                outcome |-> "rejected",
                                value |-> <<>>, error |-> "connect failed"]>>
               /\ emitted' = <<>>
               /\ sessionState' = sessionState /\ session' = session
               /\ (sessionState[m] = None /\ session[m] = NoHandle)
                    => (sessionState'[m] = None /\ session'[m] = NoHandle)
               /\ tasks' = [tasks EXCEPT ![i] = NoTask]
               /\ conduits' = conduits /\ timers' = timers
      ]_vars

\* C12 witness: the only open of an idle manager has just failed
C12_Witness ==
    \E m \in Mgrs :
        /\ settled # <<>> /\ settled[1].outcome = "rejected"
        /\ settled[1].error = "connect failed"
        /\ sessionState[m] = None /\ session[m] = NoHandle
        /\ conduits = <<>> /\ store[m] = None
        /\ \A i \in 1..MaxTasks : tasks[i].kind = "none"

\* C13: a message carrying only the rate-limit indicator makes the session
\* layer emit exactly one rate-limit-error (followed by the adapter's generic
\* message-received) and change nothing else: session state, conduit handle and
\* conduits, reconnect timer, history, token store and energy levels are as
\* before, and no session-ended is emitted.
C13_RateLimitOnlyEmits ==
    [][\A m \in Mgrs :
        OnMessage(m, [NoMsg EXCEPT !.rateLimit = TRUE]) =>
            /\ Len(emitted') = 2
            /\ emitted'[1].type = "rate-limit-error"
            /\ emitted'[2].type = "message-received"
            /\ UNCHANGED <<sessionState, session, reconnectTimer, timers, history,
                           conduits, store, tasks, level, managerRef>>
      ]_vars

\* C13 witness: a live session with a token and a recorded turn has just
\* received a rate-limit indicator
C13_Witness ==
    \E m \in Mgrs :
        /\ Emitted("rate-limit-error") # {}
        /\ sessionState[m] # None
        /\ sessionState[m][1].resumptionToken # NULL
        /\ sessionState[m][1].isActive
        /\ session[m] # NoHandle
        /\ history[m] # <<>>

\* C18: the lazy start of sendAudio never takes the resume path, whatever the
\* token store holds for the audio adapter, and the session it installs has a
\* null resumptionToken.
C18_SendAudioStartsFresh ==
    [][/\ \A sendOk \in BOOLEAN :
            (SendAudio("CallSessionManager", sendOk)
             /\ session["CallSessionManager"] = NoHandle) =>
                \E i \in Started :
                    /\ Started = {i}
                    /\ tasks'[i].mgr = "CallSessionManager"
                    /\ tasks'[i].chain.origin = "new"
       /\ \A i \in 1..MaxTasks, sendOk \in BOOLEAN :
            (ConnectResolve(i, sendOk) /\ tasks[i].caller.op = "sendAudio") =>
                /\ sessionState'["CallSessionManager"] # None
                /\ sessionState'["CallSessionManager"][1].resumptionToken = NULL
      ]_vars

\* C18 witness: the store holds a token of the audio adapter that has not
\* expired, and a session started by sendAudio has just been installed
C18_Witness ==
    /\ store["CallSessionManager"] # None
    /\ now - store["CallSessionManager"][1].timestamp <= RESUMPTION_TOKEN_EXPIRY_MS
    /\ Emitted("session-started") # {}
    /\ \E k \in 1..Len(settled) : settled[k].op = "sendAudio"
    /\ sessionState["CallSessionManager"] # None
    /\ sessionState["CallSessionManager"][1].resumptionToken = NULL

\* ------------------------------------------------------- text conversation
\* inbound messages of a text conversation: fragments, a model turn of two
\* parts, a model turn whose text is empty, the end of the generation with and
\* without a last fragment, a resumption update
TextMsgs ==
    {[NoMsg EXCEPT !.modelParts = <<<<c>>>>] : c \in {"a", "b"}}
    \cup {[NoMsg EXCEPT !.modelParts = <<<<"a">>, <<"b">>>>],
          [NoMsg EXCEPT !.modelParts = <<<<>>>>],
          [NoMsg EXCEPT !.generationComplete = TRUE],
          [NoMsg EXCEPT !.modelParts = <<<<"b">>>>, !.generationComplete = TRUE],
          [NoMsg EXCEPT !.resumption = "tokA"]}

InitText == underTest = "TextSessionManager" /\ Fresh

\* the UI sends messages and ends the session, the conduit streams the answers
NextText ==
    \/ \E sendOk \in BOOLEAN : SendMessage("TextSessionManager", "hi", sendOk)
    \/ EndSession("TextSessionManager")
    \/ \E msg \in TextMsgs : OnMessage("TextSessionManager", msg)
    \/ OnClose("TextSessionManager")
    \/ OnOpen("TextSessionManager")
    \/ \E i \in 1..MaxTasks, sendOk \in BOOLEAN : ConnectResolve(i, sendOk)
    \/ \E i \in 1..MaxTasks : ConnectReject(i)

SpecText == InitText /\ [][NextText]_vars

\* the fragments of a response, one after the other
RECURSIVE Concat(_)
Concat(fragments) ==
    IF fragments = <<>> THEN <<>>
    ELSE Head(fragments) \o Concat(Tail(fragments))

dispatchEvent_Drop(w, e) == w

dispatchEvent(w, e) == [w EXCEPT !.dispatched = Append(@, e)]

isSessionActive(w) == w.sessionState # None /\ w.sessionState[1].isActive

\* adapter.endSession() called from outside the adapter
callEndSession(w, m) == endSession([w EXCEPT !.tasks = MarkEnded(@, m)], m)

endCallSession(w) ==
    IF w.managerRef["CallSessionManager"]
    THEN [callEndSession(w, "CallSessionManager")
             EXCEPT !.managerRef["CallSessionManager"] = FALSE]
    ELSE w

\* a listener that takes a level off the ledger itself
onRateLimitError_Decrement(w, mode) ==
    [w EXCEPT !.level[mode] = @ - 1]

onRateLimitError(w, mode) ==
    IF mode = "sts" /\ w.managerRef["CallSessionManager"] /\ isSessionActive(w)
    THEN endCallSession(w)
    ELSE w

\* the energy-level-changed listener the constructor registers (prompt: the
\* persona has a prompt for this level)
onEnergyLevelChanged(w, detail, prompt) ==
    LET w1 == IF detail.reason = "rate-limit-exceeded"
              THEN onRateLimitError(w, detail.mode) ELSE w
    IN IF prompt THEN dispatchEvent(w1, [type |-> "display-prompt"]) ELSE w1

\* EnergyBarService emits energy-level-changed: its listeners run at once
emitLevelChanged(w, mode, reason, prompt) ==
    LET detail == [type |-> "energy-level-changed", mode |-> mode,
                   level |-> w.level[mode], reason |-> reason]
    IN onEnergyLevelChanged(dispatchEvent(w, detail), detail, prompt)

\* EnergyBarService.handleRateLimitError(mode): one level down, floored at 0
downgrade(w, mode, prompt) ==
    IF w.level[mode] = 0 THEN w
    ELSE emitLevelChanged([w EXCEPT !.level[mode] = @ - 1], mode,
                          "rate-limit-exceeded", prompt)

\* EnergyBarService.resetEnergyLevel(reason, mode): back to the maximum
resetEnergyLevel(w, reason, mode, prompt) ==
    emitLevelChanged([w EXCEPT !.level[mode] = MaxLevel(mode)], mode, reason, prompt)

startCallSession(w) ==
    dispatchEvent(endCallSession(w), [type |-> "call-session-ready"])

\* InteractionManager.sendAudio
sendAudioOrch(w, sendOk) ==
    IF ~w.managerRef["CallSessionManager"]
    THEN RejectCaller(w, [op |-> "sendAudio", text |-> "chunk"],
                      "No active call session")
    ELSE sendAudio(w, "CallSessionManager", sendOk)

\* sendTextMessage: without a text adapter the call throws a TypeError, which
\* rejects the promise of sendTextMessage
sendTextMessage(w, message, sendOk) ==
    IF ~w.managerRef["TextSessionManager"]
    THEN RejectCaller(w, [op |-> "sendMessage", text |-> message], "TypeError")
    ELSE sendMessage(w, "TextSessionManager", message, sendOk)

\* handleEvent, case "send-message": a missing or empty message is dropped
handleSendMessage(w, message, sendOk) ==
    IF message = "" THEN w ELSE sendTextMessage(w, message, sendOk)

\* a default branch that treats the event as a clear-chat
handleDefault_Clear(w) ==
    dispatchEvent(callEndSession(w, "TextSessionManager"), [type |-> "chat-cleared"])

\* handleEvent, default branch: the type is logged
handleDefault(w) == w

\* a clear-chat that resets the ledger only when the level is down
clearTextSession_ResetIfLow(w, prompt) ==
    LET w1 == IF w.managerRef["TextSessionManager"]
              THEN [callEndSession(w, "TextSessionManager")
                       EXCEPT !.dispatched = Append(@, [type |-> "chat-cleared"])]
              ELSE w
    IN IF w1.level["tts"] < 2
       THEN [w1 EXCEPT !.level["tts"] = 2,
                       !.dispatched = Append(@, [type |-> "energy-level-changed",
                                                 mode |-> "tts", level |-> 2,
                                                 reason |-> "manual"])]
       ELSE w1

\* a clear-chat that brings every mode back to full energy
clearTextSession_ResetBoth(w, prompt) ==
    LET w1 == IF w.managerRef["TextSessionManager"]
              THEN [callEndSession(w, "TextSessionManager")
                       EXCEPT !.dispatched = Append(@, [type |-> "chat-cleared"])]
              ELSE w
    IN [w1 EXCEPT !.level = [tts |-> 2, sts |-> 3],
                  !.dispatched = @ \o <<[type |-> "energy-level-changed",
                                         mode |-> "tts", level |-> 2,
                                         reason |-> "manual"],
                                        [type |-> "energy-level-changed",
                                         mode |-> "sts", level |-> 3,
                                         reason |-> "manual"]>>]

\* a clear-chat that forgets the energy reset
clearTextSession_NoReset(w, prompt) ==
    IF w.managerRef["TextSessionManager"]
    THEN dispatchEvent(callEndSession(w, "TextSessionManager"),
                       [type |-> "chat-cleared"])
    ELSE w

clearTextSession(w, prompt) ==
    LET w1 == IF w.managerRef["TextSessionManager"]
              THEN dispatchEvent(callEndSession(w, "TextSessionManager"),
                                 [type |-> "chat-cleared"])
              ELSE w
    IN resetEnergyLevel(w1, "manual", "tts", prompt)

\* getCallTranscript: the transcript of the audio adapter, [] without one
getCallTranscript(w) ==
    IF w.managerRef["CallSessionManager"] THEN w.history ELSE <<>>

\* an endSessionAndSummarize that summarizes whatever the transcript holds
endSessionAndSummarize_Always(w) ==
    LET w1 == endCallSession(w)
    IN Park(w1, [NoTask EXCEPT !.kind = "summarize", !.pc = "summarize",
                               !.mgr = "CallSessionManager",
                               !.transcript = getCallTranscript(w1)])

\* endSessionAndSummarize up to `await this.summarizationService.summarize`
\* (the task holds the transcript the collaborator was called with), or to
\* its `return ""`
endSessionAndSummarize(w) ==
    LET w1 == endCallSession(w)
        transcript == getCallTranscript(w1)
    IN IF Len(transcript) > 0
       THEN Park(w1, [NoTask EXCEPT !.kind = "summarize", !.pc = "summarize",
                                    !.mgr = "CallSessionManager",
                                    !.transcript = transcript])
       ELSE [w1 EXCEPT !.settled = Append(@, [op |-> "endSessionAndSummarize",
                                              req |-> "",
                                              outcome |-> "resolved",
                                              value |-> <<>>, error |-> ""])]

\* endSessionAndSummarize after summarize has resolved with `summary` (no
\* run gets here: endCallSession has dropped the adapter, so the transcript
\* endSessionAndSummarize reads is always empty)
endSessionAndSummarizeResume(w, task, summary) ==
    [dispatchEvent(w, [type |-> "call-summary", summary |-> summary,
                       transcript |-> task.transcript])
        EXCEPT !.settled = Append(@, [op |-> "endSessionAndSummarize",
                                      req |-> "", outcome |-> "resolved",
                                      value |-> summary, error |-> ""])]

\* destroy, for one of the two adapters
destroyManager(w, m) ==
    IF w.managerRef[m]
    THEN [callEndSession(w, m) EXCEPT !.managerRef[m] = FALSE]
    ELSE w

\* the state outside the adapters, carried from one adapter's world to the other's
Shared(from, to) ==
    [to EXCEPT !.store = from.store, !.timers = from.timers,
               !.nextTimer = from.nextTimer, !.conduits = from.conduits,
               !.tasks = from.tasks, !.emitted = from.emitted,
               !.settled = from.settled, !.level = from.level,
               !.managerRef = from.managerRef, !.dispatched = from.dispatched,
               !.lowered = from.lowered]

CommitBoth(wT, wC) ==
    LET of(f) == [m \in Mgrs |-> IF m = "TextSessionManager" THEN f[1] ELSE f[2]]
    IN /\ sessionState' = of(<<wT.sessionState, wC.sessionState>>)
       /\ session' = of(<<wT.session, wC.session>>)
       /\ reconnectTimer' = of(<<wT.reconnectTimer, wC.reconnectTimer>>)
       /\ history' = of(<<wT.history, wC.history>>)
       /\ resolver' = of(<<wT.resolver, wC.resolver>>)
       /\ responseText' = of(<<wT.responseText, wC.responseText>>)
       /\ streamed' = of(<<wT.streamed, wC.streamed>>)
       /\ store' = wC.store
       /\ timers' = wC.timers
       /\ nextTimer' = wC.nextTimer
       /\ conduits' = wC.conduits
       /\ tasks' = wC.tasks
       /\ emitted' = wC.emitted
       /\ settled' = wC.settled
       /\ level' = wC.level
       /\ managerRef' = wC.managerRef
       /\ dispatched' = wC.dispatched
       /\ lowered' = wC.lowered
       /\ announced' = of(<<wT.announced /\ wT.sessionState # None,
                            wC.announced /\ wC.sessionState # None>>)

\* the adapter an energy mode belongs to
Adapter(mode) == IF mode = "tts" THEN "TextSessionManager" ELSE "CallSessionManager"

Orchestrated == underTest = "InteractionManager"

CanOpen == Cardinality(PendingOpens) < MaxOpens

\* handleEvent({type: "start-call"})
StartCall ==
    /\ Orchestrated
    /\ Commit("CallSessionManager", startCallSession(W("CallSessionManager")))
    /\ UNCHANGED <<now, underTest>>

\* handleEvent({type: "send-message", detail: {message}})
SendTextMessage(message, sendOk) ==
    /\ Orchestrated
    /\ CanOpen
    /\ Len(history["TextSessionManager"]) < MaxHistory
    /\ Commit("TextSessionManager",
              handleSendMessage(W("TextSessionManager"), message, sendOk))
    /\ UNCHANGED <<now, underTest>>

\* the event types handleEvent has a case for
EventTypes == {"start-call", "send-message", "clear-chat"}

\* handleEvent({type}) for a type without a case
OtherEvent(type) ==
    /\ Orchestrated
    /\ type \notin EventTypes
    /\ Commit("TextSessionManager", handleDefault(W("TextSessionManager")))
    /\ UNCHANGED <<now, underTest>>

\* handleEvent({type: "clear-chat"})
ClearChat(prompt) ==
    /\ Orchestrated
    /\ Commit("TextSessionManager", clearTextSession(W("TextSessionManager"), prompt))
    /\ UNCHANGED <<now, underTest>>

\* the audio pipeline hands a chunk to InteractionManager.sendAudio
SendAudioOrch(sendOk) ==
    /\ Orchestrated
    /\ CanOpen
    /\ Commit("CallSessionManager", sendAudioOrch(W("CallSessionManager"), sendOk))
    /\ UNCHANGED <<now, underTest>>

\* a client of the energy ledger reports a rate limit for a mode (history: the
\* level goes down while the mode's adapter has a session open)
LedgerRateLimit(mode, prompt) ==
    /\ Orchestrated
    /\ LET w == W(Adapter(mode))
           under == w.level[mode] > 0 /\ w.session # NoHandle /\ w.sessionState # None
       IN Commit(Adapter(mode),
                 downgrade([w EXCEPT !.lowered[mode] = @ \/ under], mode, prompt))
    /\ UNCHANGED <<now, underTest>>

\* a client of the energy ledger resets a mode
LedgerReset(mode, prompt) ==
    /\ Orchestrated
    /\ Commit(Adapter(mode),
              resetEnergyLevel(W(Adapter(mode)), "session-reset", mode, prompt))
    /\ UNCHANGED <<now, underTest>>

\* the call UI ends the call and asks for its summary
EndSessionAndSummarize ==
    /\ Orchestrated
    /\ HasFreeSlot
    /\ Commit("CallSessionManager", endSessionAndSummarize(W("CallSessionManager")))
    /\ UNCHANGED <<now, underTest>>

\* InteractionManager.destroy
Destroy ==
    /\ Orchestrated
    /\ LET wT == destroyManager(W("TextSessionManager"), "TextSessionManager")
           wC == destroyManager(Shared(wT, W("CallSessionManager")),
                                "CallSessionManager")
       IN CommitBoth(wT, wC)
    /\ UNCHANGED <<now, underTest>>

\* inbound messages of the orchestrated run: a rate-limit indication
OrchMsgs == {[NoMsg EXCEPT !.rateLimit = TRUE]}

\* the UI and the audio pipeline drive the InteractionManager, clients of the
\* ledger report rate limits, the conduits deliver
NextOrch ==
    \/ StartCall
    \/ \E sendOk \in BOOLEAN : SendTextMessage("hi", sendOk)
    \/ \E prompt \in BOOLEAN : ClearChat(prompt)
    \/ \E sendOk \in BOOLEAN : SendAudioOrch(sendOk)
    \/ \E mode \in Modes, prompt \in BOOLEAN : LedgerRateLimit(mode, prompt)
    \/ Destroy
    \/ \E m \in Mgrs, msg \in OrchMsgs : OnMessage(m, msg)
    \/ \E m \in Mgrs : OnClose(m)
    \/ \E i \in 1..MaxTasks, sendOk \in BOOLEAN : ConnectResolve(i, sendOk)
    \/ \E i \in 1..MaxTasks : ConnectReject(i)

SpecOrch == InitOrch /\ [][NextOrch]_vars

\* inbound messages of a text session: a fragment, the end of the answer
EventMsgs == {[NoMsg EXCEPT !.modelParts = <<<<"a">>>>],
              [NoMsg EXCEPT !.generationComplete = TRUE]}

\* the UI sends events of every kind, text sessions open and fail, the
\* ledger runs down
NextEvent ==
    \/ StartCall
    \/ \E message \in {"hi", ""}, sendOk \in BOOLEAN : SendTextMessage(message, sendOk)
    \/ \E prompt \in BOOLEAN : ClearChat(prompt)
    \/ \E type \in {"end-call", "mute"} : OtherEvent(type)
    \/ \E prompt \in BOOLEAN : LedgerRateLimit("tts", prompt)
    \/ Destroy
    \/ \E msg \in EventMsgs : OnMessage("TextSessionManager", msg)
    \/ OnError("TextSessionManager")
    \/ \E i \in 1..MaxTasks, sendOk \in BOOLEAN : ConnectResolve(i, sendOk)
    \/ \E i \in 1..MaxTasks : ConnectReject(i)

SpecEvent == InitOrch /\ [][NextEvent]_vars

\* the clients of the ledger downgrade and reset both modes while the UI
\* chats, clears the chat and streams audio, and the conduits report rate
\* limits
NextLedger ==
    \/ \E mode \in Modes, prompt \in BOOLEAN : LedgerRateLimit(mode, prompt)
    \/ \E mode \in Modes, prompt \in BOOLEAN : LedgerReset(mode, prompt)
    \/ \E prompt \in BOOLEAN : ClearChat(prompt)
    \/ \E sendOk \in BOOLEAN : SendTextMessage("hi", sendOk)
    \/ \E sendOk \in BOOLEAN : SendAudioOrch(sendOk)
    \/ \E m \in Mgrs, msg \in OrchMsgs : OnMessage(m, msg)
    \/ \E i \in 1..MaxTasks, sendOk \in BOOLEAN : ConnectResolve(i, sendOk)
    \/ \E i \in 1..MaxTasks : ConnectReject(i)

SpecLedger == InitOrch /\ [][NextLedger]_vars

\* inbound messages of a call: what the model said, what the user said
CallMsgs == {[NoMsg EXCEPT !.outputTranscription = "a"],
             [NoMsg EXCEPT !.inputTranscription = "b"]}

\* a call from the InteractionManager's side: audio chunks go in,
\* transcriptions come back, the call is restarted, or ended and summarized
NextCall ==
    \/ StartCall
    \/ \E sendOk \in BOOLEAN : SendAudioOrch(sendOk)
    \/ EndSessionAndSummarize
    \/ Destroy
    \/ \E msg \in CallMsgs : OnMessage("CallSessionManager", msg)
    \/ OnClose("CallSessionManager")
    \/ \E i \in 1..MaxTasks, sendOk \in BOOLEAN : ConnectResolve(i, sendOk)
    \/ \E i \in 1..MaxTasks : ConnectReject(i)

SpecCall == InitOrch /\ [][NextCall]_vars

\* C14: whenever an adapter signals rate-limit-error, the ledger level of that
\* adapter's mode goes down by one (it stays at 0 when it is 0), once per signal.
C14_RateLimitDowngradesLedger ==
    [][\A m \in Mgrs :
        (OnMessage(m, [NoMsg EXCEPT !.rateLimit = TRUE])
         /\ Emitted("rate-limit-error")' # {}) =>
            level' = [level EXCEPT ![Mode(m)] = Max(0, @ - 1)]]_vars

\* the ledger notifies a level change of `mode` caused by a rate limit
RateLimitNotice(mode) ==
    \E prompt \in BOOLEAN : LedgerRateLimit(mode, prompt) /\ level[mode] > 0

\* C15: on a ledger notification with reason rate-limit, an active audio
\* session is ended when the mode is audio (session-ended emitted, no audio
\* session afterwards); when the mode is text, the text session's state,
\* conduit and history stay as they are.
C15_RateLimitNoticeEffects ==
    [][/\ (RateLimitNotice("sts") /\ isSessionActive(W("CallSessionManager"))) =>
            /\ Emitted("session-ended")' # {}
            /\ sessionState'["CallSessionManager"] = None
            /\ session'["CallSessionManager"] = NoHandle
       /\ RateLimitNotice("tts") =>
            /\ sessionState'["TextSessionManager"] = sessionState["TextSessionManager"]
            /\ session'["TextSessionManager"] = session["TextSessionManager"]
            /\ history'["TextSessionManager"] = history["TextSessionManager"]
            /\ conduits' = conduits]_vars

\* C16: after the text level was downgraded while a text session was open, a
\* send-message to that session is served by a conduit whose model is the
\* ledger's model for the lower level.
C16_NextMessageUsesLedgerModel ==
    [][\A sendOk \in BOOLEAN :
        (/\ SendTextMessage("hi", sendOk)
         /\ lowered["tts"]
         /\ managerRef["TextSessionManager"]
         /\ session["TextSessionManager"] # NoHandle
         /\ sessionState["TextSessionManager"] # None) =>
            /\ sessionState'["TextSessionManager"] # None
            /\ sessionState'["TextSessionManager"][1].currentModel
                  = getCurrentModel(W("TextSessionManager"), "tts")]_vars

\* C17: a newly started audio session is opened with the model of the highest
\* audio level, whatever the audio level was before the start.
C17_AudioStartsAtTopTier ==
    [][\A i \in 1..MaxTasks, sendOk \in BOOLEAN :
        (/\ ConnectResolve(i, sendOk)
         /\ tasks[i].kind = "start"
         /\ tasks[i].mgr = "CallSessionManager") =>
            /\ sessionState'["CallSessionManager"] # None
            /\ sessionState'["CallSessionManager"][1].currentModel
                  = getModelForLevel("sts", MaxLevel("sts"))]_vars

Dispatched(type) == {k \in 1..Len(dispatched) : dispatched[k].type = type}

\* what a clear-chat leaves alone: the audio session and the audio level
AudioUntouched ==
    /\ sessionState'["CallSessionManager"] = sessionState["CallSessionManager"]
    /\ session'["CallSessionManager"] = session["CallSessionManager"]
    /\ history'["CallSessionManager"] = history["CallSessionManager"]
    /\ level'["sts"] = level["sts"]

\* the text adapter has no session
TextSessionGone ==
    /\ sessionState'["TextSessionManager"] = None
    /\ session'["TextSessionManager"] = NoHandle
    /\ history'["TextSessionManager"] = <<>>

\* C20 as stated: from any state, clear-chat ends the text session if there
\* is one (its history becomes empty), resets the text level to its maximum,
\* dispatches exactly one chat-cleared, and leaves the audio session and the
\* audio level as they are.
C20_ClearChatFromAnyState ==
    [][\A prompt \in BOOLEAN :
        ClearChat(prompt) =>
            /\ TextSessionGone
            /\ level'["tts"] = MaxLevel("tts")
            /\ Cardinality(Dispatched("chat-cleared")') = 1
            /\ AudioUntouched]_vars

\* C20, amended: while the InteractionManager holds its text adapter (before
\* destroy), clear-chat ends the text session if there is one (its history
\* becomes empty) and dispatches exactly one chat-cleared; after destroy it
\* leaves the text adapter alone and dispatches no chat-cleared.  In both
\* cases it resets the text level to its maximum and leaves the audio session
\* and the audio level as they are.
C20_ClearChat ==
    [][\A prompt \in BOOLEAN :
        ClearChat(prompt) =>
            /\ IF managerRef["TextSessionManager"]
               THEN /\ TextSessionGone
                    /\ Cardinality(Dispatched("chat-cleared")') = 1
               ELSE /\ sessionState'["TextSessionManager"] = sessionState["TextSessionManager"]
                    /\ session'["TextSessionManager"] = session["TextSessionManager"]
                    /\ history'["TextSessionManager"] = history["TextSessionManager"]
                    /\ Dispatched("chat-cleared")' = {}
            /\ level'["tts"] = MaxLevel("tts")
            /\ AudioUntouched]_vars

\* C20 witness: a clear-chat has just ended a text session whose level had
\* gone down, next to an active audio session: the level is back at 2
C20_Witness ==
    /\ Dispatched("chat-cleared") # {}
    /\ Emitted("session-ended") # {}
    /\ lowered["tts"] /\ level["tts"] = MaxLevel("tts")
    /\ sessionState["TextSessionManager"] = None
    /\ history["TextSessionManager"] = <<>>
    /\ isSessionActive(W("CallSessionManager"))
    /\ level["sts"] < MaxLevel("sts")

\* C21: handling start-call ends the existing audio session before it
\* dispatches call-session-ready, which it dispatches exactly once: when
\* readiness is signalled no audio session of an earlier call is active.
C21_StartCallEndsThenReady ==
    [][StartCall =>
        /\ Cardinality(Dispatched("call-session-ready")') = 1
        /\ dispatched'[Len(dispatched')].type = "call-session-ready"
        /\ sessionState'["CallSessionManager"] = None
        /\ session'["CallSessionManager"] = NoHandle]_vars

\* the summarize calls in flight
Summarizing == {i \in 1..MaxTasks : tasks[i].kind = "summarize"}

\* C22: endSessionAndSummarize called while the audio transcript is empty
\* (with or without an audio session) resolves to the empty string and does
\* not call the summarization service.
C22_EmptyTranscriptNoSummary ==
    [][(EndSessionAndSummarize /\ history["CallSessionManager"] = <<>>) =>
        /\ settled' = <<[op |-> "endSessionAndSummarize", req |-> "",
                         outcome |-> "resolved", value |-> <<>>, error |-> ""]>>
        /\ Summarizing' = {}
        /\ Dispatched("call-summary")' = {}]_vars

\* C22 witness: endSessionAndSummarize has just returned "" without an audio
\* session to end (nothing was emitted, the transcript is empty as before)
C22_Witness ==
    /\ Len(settled) = 1 /\ settled[1].op = "endSessionAndSummarize"
    /\ settled[1].outcome = "resolved" /\ settled[1].value = <<>>
    /\ emitted = <<>>
    /\ history["CallSessionManager"] = <<>>
    /\ sessionState["CallSessionManager"] = None

\* C23: endSessionAndSummarize called while the audio session holds a
\* non-empty transcript ends the audio session and calls the summarization
\* service once, with the turns of that transcript in order.
C23_TranscriptSummarized ==
    [][(/\ EndSessionAndSummarize
        /\ sessionState["CallSessionManager"] # None
        /\ history["CallSessionManager"] # <<>>) =>
            /\ sessionState'["CallSessionManager"] = None
            /\ \E i \in Summarizing' :
                  /\ Summarizing' = Summarizing \cup {i} /\ i \notin Summarizing
                  /\ tasks'[i].transcript = history["CallSessionManager"]]_vars

\* ------------------------------------------------- C24: send-message fails
\* the message-error events of the last step, the rejected sends of the last step
Rejections == {k \in 1..Len(settled) : settled[k].op = "sendMessage"
                                        /\ settled[k].outcome = "rejected"}

\* C24: in an orchestrated run, whenever the forwarding of a send-message
\* fails (the open is refused, no model is left, the send throws, no session
\* or text adapter is there, the pending response is rejected by an error of
\* the conduit), the step dispatches exactly one message-error, and it
\* carries the message of that error; a step without such a failure
\* dispatches none.
C24_SendFailureBecomesMessageError ==
    /\ Cardinality(Rejections) <= 1
    /\ Cardinality(Dispatched("message-error")) = Cardinality(Rejections)
    /\ \A k \in Rejections : \A d \in Dispatched("message-error") :
           dispatched[d].error = settled[k].error

C24_Witness ==
    /\ Rejections # {}
    /\ settled[CHOOSE k \in Rejections : TRUE].error = "network"
    /\ Dispatched("message-error") # {}

\* ---------------------------------------------------- C25: unknown events
\* C25: handleEvent with a type other than start-call, send-message and
\* clear-chat dispatches nothing, settles nothing, and leaves both adapters,
\* the pending calls and timers, the token store and both energy levels as
\* they were.
C25_UnknownEventIgnored ==
    [][(\E type \in {"end-call", "mute"} : OtherEvent(type))
         => /\ dispatched' = <<>> /\ emitted' = <<>> /\ settled' = <<>>
            /\ UNCHANGED <<sessionState, session, reconnectTimer, history,
                           resolver, responseText, store, timers, nextTimer,
                           conduits, tasks, level, managerRef>>]_vars

C25_Witness ==
    /\ session["TextSessionManager"] # NoHandle
    /\ resolver["TextSessionManager"] # None
    /\ level["tts"] < 2
    /\ dispatched = <<>> /\ emitted = <<>> /\ settled = <<>>

\* --------------------------------------------------- C26..C29: the ledger
\* the change notifications of the last step for a mode
LevelChanges(mode) ==
    {k \in 1..Len(dispatched) : /\ dispatched[k].type = "energy-level-changed"
                                 /\ dispatched[k].mode = mode}

Downgrades(mode) == \E prompt \in BOOLEAN : LedgerRateLimit(mode, prompt)

Resets(mode) ==
    \/ \E prompt \in BOOLEAN : LedgerReset(mode, prompt)
    \/ mode = "tts" /\ \E prompt \in BOOLEAN : ClearChat(prompt)

\* C26: a downgrade of a mode whose level is above 0 lowers that level by
\* exactly 1 and dispatches exactly one energy-level-changed for the mode,
\* carrying the new level and the reason; at level 0 the level stays 0 and no
\* energy-level-changed is dispatched.
C26_DowngradeByOne ==
    [][\A mode \in Modes : Downgrades(mode) =>
          IF level[mode] > 0
          THEN /\ level'[mode] = level[mode] - 1
               /\ Cardinality(LevelChanges(mode)') = 1
               /\ \A k \in LevelChanges(mode)' :
                     /\ dispatched'[k].level = level'[mode]
                     /\ dispatched'[k].reason = "rate-limit-exceeded"
          ELSE /\ level'[mode] = 0
               /\ LevelChanges(mode)' = {}]_vars

C26_Witness ==
    \E k \in LevelChanges("sts") :
        /\ dispatched[k].reason = "rate-limit-exceeded"
        /\ dispatched[k].level = 0
        /\ level = [tts |-> 0, sts |-> 0]

\* C27: a reset of a mode (by a client of the ledger, or by clear-chat for
\* the text mode) sets the mode's level to its maximum, 2 for text and 3 for
\* audio, whatever it was, and dispatches exactly one energy-level-changed
\* for the mode with that level, also when the level was at the maximum.
C27_ResetToMaximum ==
    [][\A mode \in Modes : Resets(mode) =>
          /\ level'[mode] = (IF mode = "tts" THEN 2 ELSE 3)
          /\ Cardinality(LevelChanges(mode)') = 1
          /\ \A k \in LevelChanges(mode)' :
                dispatched'[k].level = level'[mode]]_vars

C27_Witness ==
    /\ level = [tts |-> 2, sts |-> 0]
    /\ \E k \in LevelChanges("tts") : dispatched[k].reason = "manual"
    /\ Dispatched("chat-cleared") # {}

\* C28: both levels start at their maximum, and in every reachable state
\* the text level is in 0..2 and the audio level in 0..3.
C28_LevelsInRange ==
    /\ level = [tts |-> 2, sts |-> 3]
    /\ [](level["tts"] \in 0..2 /\ level["sts"] \in 0..3)

C28_Witness ==
    /\ level = [tts |-> 0, sts |-> 3]
    /\ LevelChanges("sts") # {}
    /\ lowered["tts"]

\* C29: a downgrade or a reset of one mode (clear-chat's reset and a rate
\* limit reported on the mode's conduit included) leaves the level of the
\* other mode as it was and dispatches no energy-level-changed for it.
C29_ModesIndependent ==
    [][\A mode \in Modes :
          (\/ Downgrades(mode)
           \/ Resets(mode)
           \/ \E msg \in OrchMsgs : OnMessage(Adapter(mode), msg))
          => \A other \in Modes \ {mode} :
                /\ level'[other] = level[other]
                /\ LevelChanges(other)' = {}]_vars

C29_Witness ==
    /\ level = [tts |-> 2, sts |-> 1]
    /\ \E k \in LevelChanges("tts") : dispatched[k].reason = "manual"
    /\ session["CallSessionManager"] # NoHandle

\* ------------------------------------------------ C30: the age of a token
\* C30: a startSession that reads the store for its adapter finds a token
\* only if the entry is at most 2 hours (7,200,000 ms) old: a start on the
\* resume path had such an entry, and the entry stays.  An entry older than
\* that gives no token (the start is on the createNewSession path) and is
\* gone from the store after the read.
C30_ExpiredTokenPurged ==
    [][\A m \in Mgrs : \A i \in Started : tasks'[i].mgr = m =>
          LET fresh == /\ store[m] # None
                       /\ now - store[m][1].timestamp <= 7200000
          IN /\ tasks'[i].chain.origin = "resume" => fresh
             /\ fresh => store'[m] = store[m]
             /\ ~fresh => store'[m] = None
      ]_vars

\* C30 witness: 2 hours and 1 ms after the session got its token a start has
\* read the store: it is on the createNewSession path and the entry is gone
C30_Witness ==
    \E m \in Mgrs, i \in 1..MaxTasks :
        /\ now = RESUMPTION_TOKEN_EXPIRY_MS + 1
        /\ sessionState[m] # None /\ sessionState[m][1].resumptionToken # NULL
        /\ store[m] = None
        /\ tasks[i].kind = "start" /\ tasks[i].mgr = m
        /\ tasks[i].chain.origin = "new"

\* --------------------------------------------- C31: setResumptionToken
\* both adapters of one process, which share the token store, are given
\* tokens with and without a session, at different times
NextToken ==
    \/ Calls
    \/ \E m \in Mgrs, token \in {"tokA", "tokB"} : SetResumptionToken(m, token)
    \/ \E i \in 1..MaxTasks, sendOk \in BOOLEAN : ConnectResolve(i, sendOk)
    \/ \E i \in 1..MaxTasks : ConnectReject(i)
    \/ Elapse(RESUMPTION_TOKEN_EXPIRY_MS)

SpecToken == InitOrch /\ [][NextToken]_vars

\* C31: setResumptionToken(token) on an adapter with a session state sets
\* that state's resumptionToken to token and writes {token, now} into the
\* store under the adapter's own key, leaving the other adapter's entry and
\* session state alone; without a session state it changes neither the
\* session states nor the store.
C31_SetResumptionToken ==
    [][\A m \in Mgrs, token \in {"tokA", "tokB"} :
          SetResumptionToken(m, token) =>
             IF sessionState[m] # None
             THEN /\ sessionState'[m] =
                        Some([sessionState[m][1] EXCEPT !.resumptionToken = token])
                  /\ store'[m] = Some([token |-> token, timestamp |-> now])
                  /\ \A o \in Mgrs \ {m} :
                        store'[o] = store[o] /\ sessionState'[o] = sessionState[o]
             ELSE UNCHANGED <<sessionState, store>>
      ]_vars

\* C31 witness: the audio adapter's token has just been written, two hours
\* after the text adapter's, whose entry is still the old one
C31_Witness ==
    /\ store["TextSessionManager"] = Some([token |-> "tokA", timestamp |-> 0])
    /\ store["CallSessionManager"] =
          Some([token |-> "tokB", timestamp |-> RESUMPTION_TOKEN_EXPIRY_MS])
    /\ sessionState["CallSessionManager"] # None
    /\ sessionState["CallSessionManager"][1].resumptionToken = "tokB"
    /\ now = RESUMPTION_TOKEN_EXPIRY_MS

\* ------------------------------------- C32: history across a reconnection
\* C32: an automatic reconnection leaves the adapter's history (text
\* messages, call transcript) as it was: neither its teardown-and-re-open
\* step (reconnectSession after the delay) nor the completion of the
\* re-open changes the history.
C32_ReconnectionKeepsHistory ==
    [][\A i \in 1..MaxTasks :
          (/\ tasks[i].kind = "reconnect"
           /\ \/ DelayElapsed(i)
              \/ \E sendOk \in BOOLEAN : ConnectResolve(i, sendOk))
          => history' = history
      ]_vars

\* ----------------------------------------------- C33: no model, no session
\* the step is a lazily starting send of adapter m
LazySend(m) ==
    /\ session[m] = NoHandle
    /\ managerRef[m]
    /\ IF m = "TextSessionManager"
       THEN \E sendOk \in BOOLEAN : SendTextMessage("hi", sendOk)
       ELSE \E sendOk \in BOOLEAN : SendAudioOrch(sendOk)

\* C33: a lazily starting sendMessage / sendAudio of a mode whose level has
\* no model (level 0) is rejected with the "Energy exhausted" error in the
\* same step: no conduit open is parked, no conduit and no session state
\* are created, nothing is emitted (no session-started), and the history
\* gains no turn.
C33_NoModelNoSession ==
    [][\A m \in Mgrs : (LazySend(m) /\ level[Mode(m)] = 0) =>
          /\ Len(settled') = 1
          /\ settled'[1].outcome = "rejected"
          /\ settled'[1].error = "Energy exhausted"
          /\ tasks' = tasks /\ conduits' = conduits
          /\ sessionState' = sessionState /\ session' = session
          /\ emitted' = <<>>
          /\ history' = history
      ]_vars

C33_Witness ==
    /\ level["tts"] = 0
    /\ session["TextSessionManager"] = NoHandle
    /\ sessionState["TextSessionManager"] = None
    /\ Len(settled) = 1 /\ settled[1].op = "sendMessage"
    /\ settled[1].error = "Energy exhausted"
    /\ PendingOpens = {}

\* ------------------------------------------- C34: one conduit per adapter
\* the conduits of adapter m that nobody has closed, its opens in flight
OpenConduits(m) == {c \in 1..Len(conduits) : conduits[c].mgr = m /\ conduits[c].open}
OpensInFlight(m) == {i \in PendingOpens : tasks[i].mgr = m}

\* C34: at every moment an adapter has at most one conduit that is open or
\* being opened, and a conduit that is open is the adapter's current handle.
C34_OneConduitPerAdapter ==
    \A m \in Mgrs :
        /\ Cardinality(OpenConduits(m)) + Cardinality(OpensInFlight(m)) <= 1
        /\ \A c \in OpenConduits(m) : session[m] = c

\* --------------------------------------- C35: callbacks of an old conduit
\* the callbacks are closures over the adapter, made by getCallbacks() for
\* every open alike: the one conduit c delivers runs the adapter's handler
Granted(c) == c \in 1..Len(conduits)
OnCloseFrom(c) == Granted(c) /\ OnClose(conduits[c].mgr)
OnErrorFrom(c) == Granted(c) /\ OnError(conduits[c].mgr)
OnMessageFrom(c, msg) == Granted(c) /\ OnMessage(conduits[c].mgr, msg)

\* conduit c was closed by its adapter or is no longer the adapter's handle
Superseded(c) ==
    /\ Granted(c)
    /\ ~conduits[c].open \/ session[conduits[c].mgr] # c

\* C35: a callback (onclose, onerror, onmessage) delivered by a conduit that
\* its adapter has closed or replaced leaves the adapter's session state as
\* it is: isActive, connectionAttempts and the resumption token keep their
\* values and the session is not ended.
C35_OldConduitIgnored ==
    [][\A c \in 1..MaxConduits :
          (/\ Superseded(c)
           /\ \/ OnCloseFrom(c)
              \/ OnErrorFrom(c)
              \/ \E msg \in Msgs : OnMessageFrom(c, msg))
          => sessionState'[conduits[c].mgr] = sessionState[conduits[c].mgr]
      ]_vars

\* ---------------------------------------- C36: the token of a reconnection
\* C36: when the re-open of a reconnection resolves for a session that
\* holds a resumption token, the session state afterwards holds the same
\* token and the session-resumed event of the step carries it.
C36_ReconnectionKeepsToken ==
    [][\A i \in 1..MaxTasks :
          LET m == tasks[i].mgr
          IN (/\ tasks[i].kind = "reconnect"
              /\ \E sendOk \in BOOLEAN : ConnectResolve(i, sendOk)
              /\ sessionState[m] # None
              /\ sessionState[m][1].resumptionToken # NULL)
             => /\ sessionState'[m] # None
                /\ sessionState'[m][1].resumptionToken
                      = sessionState[m][1].resumptionToken
                /\ \A k \in Emitted("session-resumed")' :
                      emitted'[k].token = sessionState[m][1].resumptionToken
      ]_vars

\* ------------------------------------------ C37: started and ended, paired
\* the adapters whose session the step has ended
Ended == {m \in Mgrs : sessionState[m] # None /\ sessionState'[m] = None}

\* C37: every session-ended carries the sessionId of an earlier
\* session-started of the same adapter: the session state a step ends (one
\* session-ended, with that state's sessionId) had its sessionId announced
\* by a session-started.
C37_EndedWasStarted ==
    [][\A m \in Ended :
          /\ \E k \in Emitted("session-ended")' :
                emitted'[k].sessionId = sessionState[m][1].sessionId
          /\ announced[m]
      ]_vars

\* ------------------------------------- C38: the promise of a sendMessage
\* the promise of the pending sendMessage is settled by the step
SettlesPending ==
    \E k \in 1..Len(settled') :
        /\ settled'[k].op = "sendMessage"
        /\ settled'[k].req = resolver["TextSessionManager"][1]

\* C38: a pending sendMessage promise is not left behind: a step that ends
\* the text session, or that closes or replaces the conduit the request was
\* sent on (teardown of a reconnection), rejects the pending promise in that
\* step.
C38_PendingPromiseSettles ==
    [][LET m == "TextSessionManager"
       IN (/\ resolver[m] # None
           /\ \/ sessionState[m] # None /\ sessionState'[m] = None
              \/ session[m] # NoHandle /\ session'[m] # session[m])
          => SettlesPending
      ]_vars

\* --------------------------------------------- C39: audio after start-call
\* C39: right after a start-call has been handled (call-session-ready was
\* dispatched by the last step), InteractionManager.sendAudio(chunk) is
\* forwarded to the audio adapter: it is not rejected with "No active call
\* session".
C39_AudioAfterStartCall ==
    [][(/\ Dispatched("call-session-ready") # {}
        /\ \E sendOk \in BOOLEAN : SendAudioOrch(sendOk))
       => \A k \in 1..Len(settled') :
             settled'[k].error # "No active call session"
      ]_vars

\* ------------------------------------ C40: endSession during the delay
\* C40: when the 2000 ms delay of an attemptReconnection elapses on an
\* adapter whose session was ended meanwhile (no session state, no handle,
\* no open in flight), the step parks no conduit open, grants no conduit,
\* emits no event (no reconnecting, session-resumed or network-error) and
\* leaves the session state null.
C40_EndedDuringDelay ==
    [][\A i \in 1..MaxTasks :
          LET m == tasks[i].mgr
          IN (/\ DelayElapsed(i)
              /\ sessionState[m] = None /\ session[m] = NoHandle
              /\ OpensInFlight(m) = {})
             => /\ PendingOpens' = PendingOpens
                /\ conduits' = conduits
                /\ emitted' = <<>>
                /\ sessionState'[m] = None /\ session'[m] = NoHandle
      ]_vars

\* C40 witness: the delay of a reconnection has elapsed after the session
\* was ended (its token went to the store): nothing is pending, nothing was
\* emitted, the only conduit ever granted is closed
C40_Witness ==
    \E m \in Mgrs :
        /\ now = RECONNECT_DELAY_MS
        /\ sessionState[m] = None /\ session[m] = NoHandle
        /\ store[m] # None
        /\ \A i \in 1..MaxTasks : tasks[i].kind = "none"
        /\ emitted = <<>>
        /\ Len(conduits) = 1 /\ ~conduits[1].open
====
